---- MODULE Spec2Model ----
(***************************************************************************)
(* A model of the agent orchestrator of ultimate-vibe-agent: the           *)
(* plan -> act -> verify loop of CodingAgent.runTask, its write_file and   *)
(* run_command gates (path sandbox, policy, secret scan, approval), the    *)
(* ChangeTracker and its rollback.                                         *)
(*                                                                         *)
(* Strings are sequences of one-character strings, so that path            *)
(* resolution, glob and regular-expression matching are computed on the    *)
(* characters as the code computes them.  The platform is POSIX            *)
(* (path.sep = "/", case-sensitive comparison).                            *)
(***************************************************************************)
EXTENDS Integers, Sequences, FiniteSets, TLC

(***************************************************************************)
(* Bounds of the model.                                                    *)
(***************************************************************************)
MaxPathLen == 5
MaxIter == 2
MaxActions == 3
MaxVerify == 1

\* the items of the longest list of a text given to the parser
MaxItems == 13

\* the calls of ProjectScanner.scan and the builds they may start
MaxCallers == 3
MaxBuilds == 2

\* the calls made on the memory stores
MaxMemCalls == 2

\* the tasks started and the calls of AuditLogger.log made in all
MaxSessions == 2

MaxLogs == 3

\* the commands run one after the other and the characters kept of the
\* output of each
MaxRuns == 2

MaxOutputChars == 2

\* responseParser.ts, line 428: next.slice(0, 200)
MemoryListCap == 200

(***************************************************************************)
(* Characters and strings.                                                 *)
(***************************************************************************)
LowerSeq ==
  <<"a", "b", "c", "d", "e", "f", "g", "h", "i", "j", "k", "l", "m",
    "n", "o", "p", "q", "r", "s", "t", "u", "v", "w", "x", "y", "z">>

UpperSeq ==
  <<"A", "B", "C", "D", "E", "F", "G", "H", "I", "J", "K", "L", "M",
    "N", "O", "P", "Q", "R", "S", "T", "U", "V", "W", "X", "Y", "Z">>

Range(f) == {f[i] : i \in DOMAIN f}

Lowers == Range(LowerSeq)

Uppers == Range(UpperSeq)

Digits == {"0", "1", "2", "3", "4", "5", "6", "7", "8", "9"}

Whitespace == {" ", "\t", "\n"}

Punct == {"/", ".", "-", "_", ":", "\\", "|", "*"}

\* every character a string of the model may hold
Chars == Lowers \cup Uppers \cup Digits \cup Whitespace \cup Punct

\* String.prototype.toLowerCase, one character
lowerChar(c) ==
  IF c \in Uppers
    THEN LowerSeq[CHOOSE i \in DOMAIN UpperSeq : UpperSeq[i] = c]
    ELSE c

\* String.prototype.toUpperCase, one character
upperChar(c) ==
  IF c \in Lowers
    THEN UpperSeq[CHOOSE i \in DOMAIN LowerSeq : LowerSeq[i] = c]
    ELSE c

toLowerCase(s) == [i \in DOMAIN s |-> lowerChar(s[i])]

startsWith(s, p) == Len(p) <= Len(s) /\ SubSeq(s, 1, Len(p)) = p

endsWith(s, p) ==
  Len(p) <= Len(s) /\ SubSeq(s, Len(s) - Len(p) + 1, Len(s)) = p

\* String.prototype.includes
includes(s, p) ==
  \E i \in 1..(Len(s) - Len(p) + 1) : SubSeq(s, i, i + Len(p) - 1) = p

RECURSIVE trimStart(_)
trimStart(s) ==
  IF s # <<>> /\ Head(s) \in Whitespace THEN trimStart(Tail(s)) ELSE s

RECURSIVE trimEnd(_)
trimEnd(s) ==
  IF s # <<>> /\ s[Len(s)] \in Whitespace
    THEN trimEnd(SubSeq(s, 1, Len(s) - 1))
    ELSE s

\* String.prototype.trim
trim(s) == trimEnd(trimStart(s))

Min(a, b) == IF a <= b THEN a ELSE b

(***************************************************************************)
(* Regular expressions.  A compiled expression is a sequence of tokens:    *)
(*   rep  - between min and max characters of a set (max = -1: no limit);  *)
(*          a literal is rep of a singleton, exactly once                  *)
(*   wb   - the word boundary \b                                           *)
(*   alt  - one of a set of literal words                                  *)
(***************************************************************************)
Rep(set, min, max) ==
  [k |-> "rep", set |-> set, min |-> min, max |-> max, words |-> {}]

Lit(c) == Rep({c}, 1, 1)

WordBoundary == [k |-> "wb", set |-> {}, min |-> 0, max |-> 0, words |-> {}]

Alt(words) == [k |-> "alt", set |-> {}, min |-> 0, max |-> 0, words |-> words]

LitSeq(w) == [i \in DOMAIN w |-> Lit(w[i])]

\* "." of a regular expression: any character but a line terminator
AnyChar == Chars \ {"\n"}

NotSlash == AnyChar \ {"/"}

\* \w
WordChars == Lowers \cup Uppers \cup Digits \cup {"_"}

Alnum == Lowers \cup Uppers \cup Digits

isWordAt(s, i) == i >= 1 /\ i <= Len(s) /\ s[i] \in WordChars

\* the tokens re match s from position i on (and up to the end of s when toEnd)
RECURSIVE matchHere(_, _, _, _)
matchHere(re, s, i, toEnd) ==
  IF re = <<>>
    THEN (~toEnd) \/ i = Len(s) + 1
    ELSE
      LET t == Head(re)
          avail == Len(s) - i + 1
      IN  CASE t.k = "wb" ->
                 /\ isWordAt(s, i - 1) # isWordAt(s, i)
                 /\ matchHere(Tail(re), s, i, toEnd)
            [] t.k = "alt" ->
                 \E w \in t.words :
                   /\ Len(w) <= avail
                   /\ SubSeq(s, i, i + Len(w) - 1) = w
                   /\ matchHere(Tail(re), s, i + Len(w), toEnd)
            [] OTHER ->
                 \E n \in t.min..(IF t.max < 0 THEN avail ELSE Min(t.max, avail)) :
                   /\ \A j \in i..(i + n - 1) : s[j] \in t.set
                   /\ matchHere(Tail(re), s, i + n, toEnd)

\* RegExp.prototype.test of an expression without anchors
regexTest(re, s) ==
  \E r \in {re} : \E t \in {s} :
    \E i \in 1..(Len(t) + 1) : matchHere(r, t, i, FALSE)

\* RegExp.prototype.test of ^re$
regexTestAnchored(re, s) ==
  \E r \in {re} : \E t \in {s} : matchHere(r, t, 1, TRUE)

(***************************************************************************)
(* utils/path.ts and node:path (POSIX).                                    *)
(***************************************************************************)
Sep == "/"

\* String.prototype.split on the separator
RECURSIVE splitSep(_, _, _)
splitSep(s, cur, acc) ==
  IF s = <<>>
    THEN Append(acc, cur)
    ELSE IF Head(s) = Sep
      THEN splitSep(Tail(s), <<>>, Append(acc, cur))
      ELSE splitSep(Tail(s), Append(cur, Head(s)), acc)

Segments(s) == splitSep(s, <<>>, <<>>)

\* node:path normalizeString of an absolute path: "" and "." are dropped,
\* ".." removes the last segment kept (none above the root)
RECURSIVE normalizeSegs(_, _)
normalizeSegs(segs, stack) ==
  IF segs = <<>>
    THEN stack
    ELSE
      LET h == Head(segs)
      IN  IF h = <<>> \/ h = <<".">>
            THEN normalizeSegs(Tail(segs), stack)
            ELSE IF h = <<".", ".">>
              THEN normalizeSegs(Tail(segs),
                     IF stack = <<>> THEN stack
                     ELSE SubSeq(stack, 1, Len(stack) - 1))
              ELSE normalizeSegs(Tail(segs), Append(stack, h))

RECURSIVE joinSegs(_)
joinSegs(segs) ==
  IF segs = <<>> THEN <<>> ELSE <<Sep>> \o Head(segs) \o joinSegs(Tail(segs))

isAbsolute(p) == p # <<>> /\ Head(p) = Sep

\* path.resolve(from, to) for an absolute from.  (A const of the code is a
\* name bound to the one element of a set, so its value is computed once.)
pathResolve(from, to) ==
  CHOOSE out \in
    { IF segs = <<>> THEN <<Sep>> ELSE joinSegs(segs) :
        segs \in {normalizeSegs(Segments(IF isAbsolute(to) THEN to
                              ELSE from \o <<Sep>> \o to), <<>>)} } : TRUE

\* path.dirname of a resolved absolute path
pathDirname(p) ==
  CHOOSE out \in
    { IF Len(segs) <= 1 THEN <<Sep>>
                     ELSE joinSegs(SubSeq(segs, 1, Len(segs) - 1)) :
        segs \in {normalizeSegs(Segments(p), <<>>)} } : TRUE

normalizeForComparison(value) == pathResolve(<<Sep>>, value)

\* a root prefix that lost its trailing separator
rootPrefixOfNoSep(rootCmp) == rootCmp

rootPrefixOf(rootCmp) ==
  IF endsWith(rootCmp, <<Sep>>) THEN rootCmp ELSE rootCmp \o <<Sep>>

\* resolveWorkspacePath: ok = FALSE stands for the thrown
\* 'Path "..." is outside workspace root.' error
resolveWorkspacePath(workspaceRoot, userPath) ==
  CHOOSE out \in UNION UNION
    { { { IF candidateCmp # rootCmp
               /\ ~startsWith(candidateCmp, rootPrefixOf(rootCmp))
            THEN [ok |-> FALSE, path |-> <<>>]
            ELSE [ok |-> TRUE, path |-> candidate] :
            rootCmp \in {normalizeForComparison(rootResolved)},
            candidateCmp \in {normalizeForComparison(candidate)} } :
          candidate \in {pathResolve(rootResolved, userPath)} } :
        rootResolved \in {pathResolve(<<Sep>>, workspaceRoot)} } : TRUE

(***************************************************************************)
(* security/policy.ts                                                      *)
(***************************************************************************)
\* the letters from lo to hi, in both cases (a class [lo-hi] under "i")
letterRange(lo, hi) ==
  LET idx(c) == CHOOSE i \in DOMAIN LowerSeq : LowerSeq[i] = lowerChar(c)
  IN  UNION {{LowerSeq[i], UpperSeq[i]} : i \in idx(lo)..idx(hi)}

\* new RegExp(text, "iu") for the syntax the policy patterns use: literals,
\* ".", "\s", "\b", escaped punctuation, a class [x-y], and the quantifiers
\* "+" and "*".  valid = FALSE stands for the SyntaxError of anything else.
RECURSIVE compileRegExp(_)
compileRegExp(text) ==
  IF text = <<>>
    THEN [valid |-> TRUE, re |-> <<>>]
    ELSE
      LET c == Head(text)
          isClass == /\ c = "["
                     /\ Len(text) >= 5
                     /\ text[3] = "-"
                     /\ text[5] = "]"
                     /\ lowerChar(text[2]) \in Lowers
                     /\ lowerChar(text[4]) \in Lowers
          isEscape == c = "\\" /\ Len(text) >= 2
          isBoundary == isEscape /\ text[2] = "b"
          width == IF isClass THEN 5 ELSE IF isEscape THEN 2 ELSE 1
          set == IF isClass THEN letterRange(text[2], text[4])
                 ELSE IF isEscape
                   THEN (IF text[2] = "s" THEN Whitespace ELSE {text[2]})
                 ELSE IF c = "." THEN AnyChar
                 ELSE {lowerChar(c), upperChar(c)}
          bad == \/ (c \in {"(", ")", "[", "]", "+", "*", "\\"}
                       /\ ~isClass /\ ~isEscape)
                 \/ (isEscape /\ text[2] \in (Alnum \ {"s", "b"}))
          quantified == /\ ~isBoundary
                        /\ Len(text) > width
                        /\ text[width + 1] \in {"+", "*"}
          min == IF quantified /\ text[width + 1] = "*" THEN 0 ELSE 1
      IN  CHOOSE out \in
            { IF bad \/ ~rest.valid
                THEN [valid |-> FALSE, re |-> <<>>]
                ELSE [ valid |-> TRUE,
                       re |-> << IF isBoundary THEN WordBoundary
                                 ELSE Rep(set, min,
                                          IF quantified THEN -1 ELSE 1) >>
                              \o rest.re ] :
                rest \in { compileRegExp(tail) :
                             tail \in {SubSeq(text,
                                              width
                                                + (IF quantified THEN 2 ELSE 1),
                                              Len(text))} } } : TRUE

DefaultBlockedCommandPatterns ==
  << <<"r", "m", "\\", "s", "+", "-", "r", "f", "\\", "s", "+", "/">>,
     <<"d", "e", "l", "\\", "s", "+", "/", "s", "\\", "s", "+", "/", "q",
       "\\", "s", "+", "c", ":", "\\", "\\">>,
     <<"s", "h", "u", "t", "d", "o", "w", "n", "\\", "b">>,
     <<"r", "e", "b", "o", "o", "t", "\\", "b">>,
     <<"m", "k", "f", "s", "\\", "b">>,
     <<"f", "o", "r", "m", "a", "t", "\\", "s", "+", "[", "a", "-", "z", "]",
       ":">>,
     <<"c", "u", "r", "l", "\\", "s", "+", ".", "+", "\\", "|",
       "\\", "s", "*", "s", "h", "\\", "b">>,
     <<"w", "g", "e", "t", "\\", "s", "+", ".", "+", "\\", "|",
       "\\", "s", "*", "s", "h", "\\", "b">>,
     <<"p", "o", "w", "e", "r", "s", "h", "e", "l", "l", "\\", "s", "+",
       "-", "e", "n", "c", "\\", "b">> >>

DefaultBlockedWriteGlobs ==
  << <<".", "e", "n", "v">>,
     <<".", "e", "n", "v", ".", "*">>,
     <<"*", "*", "/", ".", "e", "n", "v">>,
     <<"*", "*", "/", ".", "e", "n", "v", ".", "*">>,
     <<"*", "*", "/", "*", ".", "p", "e", "m">>,
     <<"*", "*", "/", "*", ".", "k", "e", "y">>,
     <<"*", "*", "/", "i", "d", "_", "r", "s", "a">>,
     <<".", "g", "i", "t", "/", "*", "*">> >>

DEFAULT_POLICY ==
  [ allowRunCommand |-> TRUE,
    allowWrite |-> TRUE,
    allowedCommandPrefixes |-> <<>>,
    blockedCommandPatterns |-> DefaultBlockedCommandPatterns,
    blockedWriteGlobs |-> DefaultBlockedWriteGlobs,
    allowPotentialSecrets |-> FALSE ]

\* globToRegExp: "**" becomes ".*", a single "*" becomes "[^/]*", every
\* other character of the model's alphabet is matched literally
RECURSIVE globToRegExp(_)
globToRegExp(glob) ==
  IF glob = <<>>
    THEN <<>>
    ELSE IF Len(glob) >= 2 /\ glob[1] = "*" /\ glob[2] = "*"
      THEN <<Rep(AnyChar, 0, -1)>> \o globToRegExp(SubSeq(glob, 3, Len(glob)))
      ELSE IF glob[1] = "*"
        THEN <<Rep(NotSlash, 0, -1)>> \o globToRegExp(Tail(glob))
        ELSE <<Lit(glob[1])>> \o globToRegExp(Tail(glob))

normalizePathForPolicy(inputPath) ==
  [i \in DOMAIN inputPath |->
     IF inputPath[i] = "\\" THEN "/" ELSE inputPath[i]]

Allowed == [allowed |-> TRUE, reason |-> "none"]

Denied(reason) == [allowed |-> FALSE, reason |-> reason]

isCommandAllowed(policy, command) ==
  CHOOSE out \in
    { LET blocks(pattern) ==
          CHOOSE out \in
            { IF regex.valid
              THEN regexTest(regex.re, normalized)
              ELSE includes(toLowerCase(normalized), toLowerCase(pattern)) :
                regex \in {compileRegExp(pattern)} } : TRUE
    IN  IF ~policy.allowRunCommand
          THEN Denied("Policy blocks run_command actions.")
        ELSE IF normalized = <<>>
          THEN Denied("Empty command is not allowed.")
        ELSE IF \E i \in DOMAIN policy.blockedCommandPatterns :
                  blocks(policy.blockedCommandPatterns[i])
          THEN Denied("Command blocked by policy pattern")
        ELSE IF /\ policy.allowedCommandPrefixes # <<>>
                /\ ~\E i \in DOMAIN policy.allowedCommandPrefixes :
                      startsWith(normalized, policy.allowedCommandPrefixes[i])
          THEN Denied("Command must start with one of")
        ELSE Allowed :
        normalized \in {trim(command)} } : TRUE

\* the write-path check without its allowWrite test
isWritePathAllowedGlobsOnly(policy, relativePath) ==
  LET normalizedPath == normalizePathForPolicy(relativePath)
  IN  IF \E i \in DOMAIN policy.blockedWriteGlobs :
           regexTestAnchored(globToRegExp(policy.blockedWriteGlobs[i]),
                             normalizedPath)
        THEN Denied("Write path blocked by policy glob")
        ELSE Allowed

isWritePathAllowed(policy, relativePath) ==
  LET normalizedPath == normalizePathForPolicy(relativePath)
  IN  IF ~policy.allowWrite
        THEN Denied("Policy blocks write_file actions.")
      ELSE IF \E i \in DOMAIN policy.blockedWriteGlobs :
                regexTestAnchored(globToRegExp(policy.blockedWriteGlobs[i]),
                                  normalizedPath)
        THEN Denied("Write path blocked by policy glob")
      ELSE Allowed

(***************************************************************************)
(* security/secrets.ts                                                     *)
(***************************************************************************)
KeyRule(type, prefix, set, min, max) ==
  [ type |-> type,
    regex |-> <<WordBoundary>> \o LitSeq(prefix) \o <<Rep(set, min, max)>>
                \o <<WordBoundary>> ]

SECRET_RULES ==
  << KeyRule("Groq API key", <<"g", "s", "k", "_">>, Alnum, 20, -1),
     KeyRule("OpenAI API key", <<"s", "k", "-">>, Alnum, 20, -1),
     KeyRule("GitHub token", <<"g", "h", "p", "_">>, Alnum, 20, -1),
     KeyRule("AWS access key", <<"A", "K", "I", "A">>,
             Digits \cup Uppers, 16, 16),
     KeyRule("Google API key", <<"A", "I", "z", "a">>,
             Alnum \cup {"-", "_"}, 20, -1),
     [ type |-> "Private key block",
       regex |->
         LitSeq(<<"-", "-", "-", "-", "-", "B", "E", "G", "I", "N", " ">>)
         \o <<Alt({ <<"R", "S", "A">>,
                    <<"O", "P", "E", "N", "S", "S", "H">>,
                    <<"E", "C">>,
                    <<"D", "S", "A">> })>>
         \o LitSeq(<<" ", "P", "R", "I", "V", "A", "T", "E", " ",
                     "K", "E", "Y", "-", "-", "-", "-", "-">>) ] >>

\* detectSecrets: the types of the rules that match the content, in rule
\* order.  (The code adds one finding per match and stops at 20; the list
\* is empty exactly when no rule matches, which is all its caller tests.)
RECURSIVE findingsFrom(_, _)
findingsFrom(rules, content) ==
  IF rules = <<>>
    THEN <<>>
    ELSE (IF regexTest(Head(rules).regex, content)
            THEN <<Head(rules).type>> ELSE <<>>)
         \o findingsFrom(Tail(rules), content)

detectSecrets(content) == findingsFrom(SECRET_RULES, content)

(***************************************************************************)
(* The workspace and the inputs of the model.                              *)
(***************************************************************************)
WorkspaceRoot == <<"/", "w">>

PathA == <<"a">>

PathDotA == <<".", "/", "a">>

PathGit == <<".", "g", "i", "t", "/", "c">>

PathDotGit == <<".", "/", ".", "g", "i", "t", "/", "c">>

PathEnv == <<".", "e", "n", "v">>

PathEscape == <<".", ".", "/", "e">>

TextX == <<"x">>

TextY == <<"y">>

\* a Groq-style key: gsk_ and twenty letters
SecretText == <<"g", "s", "k", "_">> \o [i \in 1..20 |-> "A"]

CmdRm == <<"R", "M", " ", "-", "r", "f", " ", "/">>

CmdLs == <<"l", "s">>

CmdNpm == <<"n", "p", "m", " ", "t">>

NoText == <<>>

WriteAction(p, c) ==
  [tool |-> "write_file", path |-> p, content |-> c, command |-> NoText]

ReadAction(p) ==
  [tool |-> "read_file", path |-> p, content |-> NoText, command |-> NoText]

ListAction(p) ==
  [tool |-> "list_files", path |-> p, content |-> NoText, command |-> NoText]

RunAction(c) ==
  [tool |-> "run_command", path |-> NoText, content |-> NoText, command |-> c]

\* config.ts, lines 53-56: the state directory, in the workspace
StateDirUserPath == <<".", "v", "i", "b", "e", "-", "a", "g", "e", "n", "t">>

PolicyFileName == <<"p", "o", "l", "i", "c", "y", ".", "j", "s", "o", "n">>

\* <stateDir>/policy.json as a write_file action spells it
PolicyUserPath == StateDirUserPath \o <<"/">> \o PolicyFileName

\* texts of policy.json: nothing set, nothing allowed, nothing blocked
PolicyTextDefault == <<"{", "}">>

PolicyTextClosed ==
  <<"{", "\"", "a", "l", "l", "o", "w", "R", "u", "n", "C", "o", "m", "m",
    "a", "n", "d", "\"", ":", "f", "a", "l", "s", "e", ",", "\"", "a", "l",
    "l", "o", "w", "W", "r", "i", "t", "e", "\"", ":", "f", "a", "l", "s",
    "e", "}">>

\* no command may run, files may be written
PolicyTextNoRun ==
  <<"{", "\"", "a", "l", "l", "o", "w", "R", "u", "n", "C", "o", "m", "m",
    "a", "n", "d", "\"", ":", "f", "a", "l", "s", "e", "}">>

PolicyTextOpen ==
  <<"{", "\"", "b", "l", "o", "c", "k", "e", "d", "C", "o", "m", "m", "a",
    "n", "d", "P", "a", "t", "t", "e", "r", "n", "s", "\"", ":", "[", "]",
    ",", "\"", "a", "l", "l", "o", "w", "P", "o", "t", "e", "n", "t", "i",
    "a", "l", "S", "e", "c", "r", "e", "t", "s", "\"", ":", "t", "r", "u",
    "e", "}">>

PolicyTexts == {PolicyTextDefault, PolicyTextClosed, PolicyTextOpen}

(***************************************************************************)
(* The inputs of a task are drawn from one family of inputs: the actions   *)
(* and verify commands its model responses may hold, the statuses they may *)
(* carry, what auto-verify may discover, and the policy, configuration and *)
(* disk the task may start from.                                           *)
(***************************************************************************)
DefaultConfig ==
  [ apiKey |-> TRUE,
    maxIterations |-> MaxIter,
    autoRepairMaxRounds |-> 3,
    autoVerify |-> TRUE ]

Families == {"edits", "gates", "faults", "commands", "loop", "logfaults"}

FamilyActions(f) ==
  CASE f = "edits" ->
         { WriteAction(PathA, TextX), WriteAction(PathA, NoText),
           WriteAction(PathDotA, TextY) }
    [] f = "gates" ->
         { WriteAction(PathGit, TextX), WriteAction(PathDotGit, TextX),
           WriteAction(PathEnv, TextX), WriteAction(PathA, SecretText) }
    [] f = "faults" ->
         { ReadAction(PathEscape), ListAction(PathEscape),
           WriteAction(PathEscape, TextX), ReadAction(PathA),
           WriteAction(PathA, TextX) }
    [] OTHER -> {}

FamilyVerify(f) ==
  CASE f = "gates" -> {}
    [] f = "faults" -> {}
    [] f = "commands" -> {CmdNpm, CmdRm}
    [] OTHER -> {CmdNpm}

\* what discoverAutoVerifyCommands may find in the workspace and the memory
FamilyAutoVerify(f) ==
  CASE f = "commands" -> {<<>>, <<CmdLs>>, <<CmdRm>>}
    [] OTHER -> {<<>>}

FamilyStatus(f) ==
  CASE f \in {"loop", "logfaults", "policyfile"} ->
         {"continue", "done", "need_user"}
    [] OTHER -> {"continue"}

FamilyPolicies(f) ==
  CASE f = "gates" ->
         { DEFAULT_POLICY,
           [DEFAULT_POLICY EXCEPT !.allowWrite = FALSE],
           [DEFAULT_POLICY EXCEPT !.allowPotentialSecrets = TRUE] }
    [] f = "faults" ->
         { DEFAULT_POLICY, [DEFAULT_POLICY EXCEPT !.allowWrite = FALSE] }
    [] f = "commands" ->
         { DEFAULT_POLICY,
           [DEFAULT_POLICY EXCEPT !.allowRunCommand = FALSE],
           [DEFAULT_POLICY EXCEPT
              !.allowedCommandPrefixes = <<<<"n", "p", "m">>>>] }
    [] OTHER -> {DEFAULT_POLICY}

\* the families other than "loop" run tasks of one iteration
FamilyConfigs(f) ==
  CASE f = "commands" ->
         { [DefaultConfig EXCEPT !.maxIterations = 1, !.autoVerify = b] :
             b \in BOOLEAN }
    [] f = "loop" ->
         {[DefaultConfig EXCEPT !.autoRepairMaxRounds = n] : n \in 1..2}
         \cup {[DefaultConfig EXCEPT !.apiKey = FALSE]}
    [] f \in {"logfaults", "policyfile"} ->
         { [DefaultConfig EXCEPT !.maxIterations = 1, !.autoRepairMaxRounds = 1],
           [DefaultConfig EXCEPT !.maxIterations = 1, !.apiKey = FALSE] }
    [] OTHER -> {[DefaultConfig EXCEPT !.maxIterations = 1]}

\* a disk is a function from the absolute paths of the files that exist to
\* their content
EmptyDisk == [f \in {} |-> <<>>]

FamilyDisks(f) ==
  CASE f = "edits" ->
         {EmptyDisk, pathResolve(WorkspaceRoot, PathA) :> TextX}
    [] OTHER -> {EmptyDisk}

\* sequences over S of length at most n
SeqUpTo(S, n) == UNION {[1..k -> S] : k \in 0..n}

\* the action lists of the model responses of a family
FamilyResponses(f) ==
  CASE f = "loop" -> {<<>>, <<WriteAction(PathA, TextX)>>}
    [] f = "logfaults" ->
         { <<>>,
           <<WriteAction(PathA, TextX)>>,
           <<ReadAction(PathA), RunAction(CmdLs)>> }
    [] f = "policyfile" ->
         { <<>>,
           <<WriteAction(PolicyUserPath, PolicyTextClosed),
             WriteAction(PathA, TextX), RunAction(CmdLs)>>,
           <<WriteAction(PolicyUserPath, PolicyTextOpen), RunAction(CmdRm),
             WriteAction(PathA, SecretText)>>,
           <<ReadAction(PathA), RunAction(CmdLs)>> }
    [] f = "commands" ->
         { <<>>,
           <<RunAction(CmdRm)>>,
           <<RunAction(CmdLs)>>,
           <<WriteAction(PathA, TextX)>>,
           <<RunAction(CmdRm), WriteAction(PathA, TextX)>>,
           <<RunAction(CmdLs), RunAction(CmdRm)>> }
    [] OTHER -> SeqUpTo(FamilyActions(f), MaxActions)

(***************************************************************************)
(* tools/fileTools.ts on a disk d.  ok = FALSE stands for a thrown error,  *)
(* touched for the paths the call reads, writes, creates or removes.  A    *)
(* directory is the root, which exists, or a proper ancestor of the root   *)
(* or of a file.                                                           *)
(***************************************************************************)
isDirectory(d, workspaceRoot, p) ==
  \E rootResolved \in {pathResolve(<<Sep>>, workspaceRoot)} :
    \/ p = rootResolved
    \/ startsWith(rootResolved, rootPrefixOf(p))
    \/ \E f \in DOMAIN d : f # p /\ startsWith(f, rootPrefixOf(p))

\* fs.mkdir(dirPath, {recursive: true}) leaves an existing directory alone
mkdirTouched(d, workspaceRoot, dirPath) ==
  IF isDirectory(d, workspaceRoot, dirPath) THEN {} ELSE {dirPath}

\* a proper ancestor of p is a file: the filesystem answers ENOTDIR
underFile(d, p) ==
  \E f \in DOMAIN d : f # p /\ startsWith(p, rootPrefixOf(f))

fileExists(d, workspaceRoot, filePath) ==
  CHOOSE out \in
    { IF ~r.ok THEN [ok |-> FALSE, value |-> FALSE, touched |-> {}]
      ELSE [ ok |-> TRUE,
             value |-> \/ r.path \in DOMAIN d
                       \/ isDirectory(d, workspaceRoot, r.path),
             touched |-> {r.path} ] :
        r \in {resolveWorkspacePath(workspaceRoot, filePath)} } : TRUE

readFileIfExists(d, workspaceRoot, filePath) ==
  CHOOSE out \in
    { IF ~r.ok THEN [ok |-> FALSE, value |-> NoText, touched |-> {}]
      ELSE IF isDirectory(d, workspaceRoot, r.path) \/ underFile(d, r.path)
        THEN [ok |-> FALSE, value |-> NoText, touched |-> {r.path}]
      ELSE [ ok |-> TRUE,
             value |-> IF r.path \in DOMAIN d THEN d[r.path] ELSE NoText,
             touched |-> {r.path} ] :
        r \in {resolveWorkspacePath(workspaceRoot, filePath)} } : TRUE

\* readFileSegment: reading an absent file throws ENOENT
readFileSegment(d, workspaceRoot, filePath) ==
  CHOOSE out \in
    { IF ~r.ok THEN [ok |-> FALSE, value |-> NoText, touched |-> {}]
      ELSE IF r.path \notin DOMAIN d
        THEN [ok |-> FALSE, value |-> NoText, touched |-> {r.path}]
      ELSE [ok |-> TRUE, value |-> d[r.path], touched |-> {r.path}] :
        r \in {resolveWorkspacePath(workspaceRoot, filePath)} } : TRUE

\* listFiles: stat of the base path, which throws when nothing is there
listFiles(d, workspaceRoot, filePath) ==
  CHOOSE out \in
    { IF ~r.ok THEN [ok |-> FALSE, touched |-> {}]
      ELSE [ ok |-> \/ r.path \in DOMAIN d
                    \/ isDirectory(d, workspaceRoot, r.path),
             touched |-> {r.path} ] :
        r \in {resolveWorkspacePath(workspaceRoot, filePath)} } : TRUE

\* writeFile: mkdir -p of the parent, then the write
writeFile(d, workspaceRoot, filePath, content) ==
  CHOOSE out \in
    { IF ~r.ok THEN [ok |-> FALSE, disk |-> d, touched |-> {}]
      ELSE IF underFile(d, r.path)
        THEN [ok |-> FALSE, disk |-> d, touched |-> {pathDirname(r.path)}]
      ELSE IF isDirectory(d, workspaceRoot, r.path)
        THEN [ok |-> FALSE, disk |-> d, touched |-> {r.path}]
      ELSE [ ok |-> TRUE,
             disk |-> (r.path :> content) @@ d,
             touched |-> mkdirTouched(d, workspaceRoot, pathDirname(r.path))
                         \cup {r.path} ] :
        r \in {resolveWorkspacePath(workspaceRoot, filePath)} } : TRUE

deleteFileIfExists(d, workspaceRoot, filePath) ==
  CHOOSE out \in
    { IF ~r.ok THEN [ok |-> FALSE, disk |-> d, touched |-> {}]
      ELSE IF isDirectory(d, workspaceRoot, r.path) \/ underFile(d, r.path)
        THEN [ok |-> FALSE, disk |-> d, touched |-> {r.path}]
      ELSE [ ok |-> TRUE,
             disk |-> [f \in DOMAIN d \ {r.path} |-> d[f]],
             touched |-> {r.path} ] :
        r \in {resolveWorkspacePath(workspaceRoot, filePath)} } : TRUE

(***************************************************************************)
(* reliability/changeTracker.ts: a tracker is [snapshots, order], the      *)
(* snapshots a function from the paths as the actions spelled them.        *)
(***************************************************************************)
NewChangeTracker == [snapshots |-> [p \in {} |-> <<>>], order |-> <<>>]

\* recordBefore without the "already tracked" test
recordBeforeOverwrite(tr, path, existed, before) ==
  [ snapshots |->
      (path :> [path |-> path, existed |-> existed,
                before |-> before, after |-> before]) @@ tr.snapshots,
    order |-> IF path \in DOMAIN tr.snapshots THEN tr.order
              ELSE Append(tr.order, path) ]

recordBefore(tr, path, existed, before) ==
  IF path \in DOMAIN tr.snapshots
    THEN tr
    ELSE [ snapshots |->
             (path :> [path |-> path, existed |-> existed,
                       before |-> before, after |-> before]) @@ tr.snapshots,
           order |-> Append(tr.order, path) ]

recordAfter(tr, path, after) ==
  IF path \notin DOMAIN tr.snapshots
    THEN tr
    ELSE [tr EXCEPT !.snapshots[path].after = after]

hasChanges(tr) ==
  \E i \in DOMAIN tr.order :
    /\ tr.order[i] \in DOMAIN tr.snapshots
    /\ tr.snapshots[tr.order[i]].before # tr.snapshots[tr.order[i]].after

\* the paths of getChangedFiles, in insertion order
RECURSIVE changedFrom(_, _)
changedFrom(tr, i) ==
  IF i > Len(tr.order)
    THEN <<>>
    ELSE (IF tr.snapshots[tr.order[i]].before # tr.snapshots[tr.order[i]].after
            THEN <<tr.order[i]>> ELSE <<>>)
         \o changedFrom(tr, i + 1)

getChangedFiles(tr) == changedFrom(tr, 1)

\* rollback, from the i-th path of order down to the first
RECURSIVE rollbackFrom(_, _, _, _)
rollbackFrom(tr, d, workspaceRoot, i) ==
  IF i = 0
    THEN [disk |-> d, restored |-> <<>>, touched |-> {}]
    ELSE
      LET snapshot == tr.snapshots[tr.order[i]]
      IN  IF snapshot.before = snapshot.after
            THEN rollbackFrom(tr, d, workspaceRoot, i - 1)
            ELSE
              CHOOSE out \in UNION
                { { [ disk |-> rest.disk,
                      restored |-> Append(rest.restored, snapshot.path),
                      touched |-> w.touched \cup rest.touched ] :
                      rest \in {rollbackFrom(tr, w.disk, workspaceRoot,
                                             i - 1)} } :
                    w \in {IF snapshot.existed
                             THEN writeFile(d, workspaceRoot, snapshot.path,
                                            snapshot.before)
                             ELSE deleteFileIfExists(d, workspaceRoot,
                                                     snapshot.path)} } : TRUE

rollback(tr, d, workspaceRoot) ==
  rollbackFrom(tr, d, workspaceRoot, Len(tr.order))

(***************************************************************************)
(* agent/agent.ts: CodingAgent.runTask as a state machine.                 *)
(*                                                                         *)
(* auditOut, auditFailed, uiOut, spawnOut and fsOut hold what the last step logged,     *)
(* asked the user, spawned and touched on the filesystem; the audit file,  *)
(* the terminal and the process table are the concatenation of them along  *)
(* a behaviour.                                                            *)
(***************************************************************************)
VARIABLES
  family,                     \* the family of inputs of the task
  policy,                     \* the policy loaded at task start
  config,                     \* the runtime configuration
  disk,                       \* the files of the workspace
  disk0,                      \* the files of the workspace at task start
  changeTracker,
  pc,
  loop,
  status,                     \* modelResponse.status of this iteration
  pending,                    \* the actions of modelResponse not yet dispatched
  verify,                     \* modelResponse.verify
  verifyCommands,             \* the verify commands of this iteration
  verifyIdx,                  \* how many of them ran
  toolResults,
  loopHadWrites,
  loopVerifyFailed,
  hadVerifyFailures,
  consecutiveVerifyFailures,
  completed,
  maxIterationReached,
  abortedByError,
  stoppedEarly,
  conversation,
  changedByWrite,             \* the files a write_file action wrote
  auditOut,
  auditFailed,                \* the log calls of the last step that failed,
                              \*   as positions of auditOut
  uiOut,
  spawnOut,
  fsOut,
  pathIn,                     \* a workspace root and a path given to
  pathOut,                    \*   resolveWorkspacePath, its result,
  toolOut,                    \*   and the result of a file tool on them
  modelCalls,                 \* how many times the Chat Client was called
  rollbackPrompts,            \* how many times the rollback prompt was shown
  restoredFiles,              \* restoredFiles of the rollback event logged
  lastVerifyFailed,           \* a verify command failed in the last iteration
                              \*   that ran verify commands
  repairRounds,               \* consecutive iterations with a failed verify
                              \*   command since the last repair limit prompt
  rawText,                    \* a text given to parseAgentModelResponse
  response,                   \*   and what it returned
  cachedIndex,                \* ProjectScanner: the build whose index is
                              \*   cached, 0 for null
  inFlightScan,               \* ProjectScanner: the build whose promise is
                              \*   held, 0 for null
  builds,                     \* the promise of each call of buildIndex
  callers,                    \* the calls of ProjectScanner.scan
  memoryFiles,                \* memory.json of each state directory
  kvHeap,                     \* the objects that hold a kv map; the first
                              \*   one is DEFAULT_MEMORY.kv
  stores,                     \* the MemoryStore of each state directory
  memCalls,                   \* the calls made on the stores
  clock,                      \* the wall clock, in milliseconds
  sessions,                   \* the AuditLogger of each task started
  children,                   \* the calls of runShellCommand
  symlinks,                   \* the symbolic links of the filesystem
  realOut,                    \* the filesystem objects a file tool reached
  discoverIn                  \* what discoverAutoVerifyCommands is given: the
                              \*   memory and the files of the workspace

vars ==
  << family, policy, config, disk, disk0, changeTracker, pc, loop, status, pending,
     verify, verifyCommands, verifyIdx, toolResults, loopHadWrites,
     loopVerifyFailed, hadVerifyFailures, consecutiveVerifyFailures,
     completed, maxIterationReached, abortedByError, stoppedEarly,
     conversation, changedByWrite, auditOut, auditFailed, uiOut, spawnOut, fsOut,
     pathIn, pathOut, toolOut, modelCalls, rollbackPrompts, restoredFiles,
     lastVerifyFailed, repairRounds, rawText, response, cachedIndex,
     inFlightScan, builds, callers, memoryFiles, kvHeap, stores, memCalls,
     clock, sessions, children, symlinks, realOut, discoverIn >>

Result(tool, ok, summary, reason) ==
  [tool |-> tool, ok |-> ok, summary |-> summary, reason |-> reason]

Confirm(kind, path, answer) == [kind |-> kind, path |-> path, answer |-> answer]

\* ui.info, ui.warn, ui.error
Message(kind, text) == [kind |-> kind, text |-> text]

AnswerSet == {"yes", "no", "unavailable"}

NoPath == [root |-> NoText, userPath |-> NoText]

NoResolve == [done |-> FALSE, ok |-> FALSE, path |-> NoText]

NoTool == [tool |-> "none", ok |-> FALSE]

NoResponse == [returned |-> FALSE, threw |-> FALSE]

\* a call of ProjectScanner.scan that was not made
NoCall ==
  [pc |-> "idle", refresh |-> FALSE, arrived |-> 0, started |-> 0,
   cached |-> 0, build |-> 0, result |-> 0]

\* ProjectScanner, lines 479-486: the scanner after its construction
ScannerNew ==
  /\ cachedIndex = 0
  /\ inFlightScan = 0
  /\ builds = <<>>
  /\ callers = <<>>

\* no state directory holds a memory.json and no MemoryStore was made
MemoryIdle ==
  /\ memoryFiles = <<>>
  /\ kvHeap = <<>>
  /\ stores = <<>>
  /\ memCalls = <<>>

\* no task was started
AuditIdle ==
  /\ clock = 0
  /\ sessions = <<>>

\* no command was run
ShellIdle == children = <<>>

\* no symbolic link, no file tool called
LinksIdle ==
  /\ symlinks = EmptyDisk
  /\ realOut = {}

NoSignals == [memory |-> <<>>, scripts |-> {}, python |-> {}]

DiscoveryIdle == discoverIn = NoSignals

OtherUnitsNew == MemoryIdle /\ AuditIdle /\ ShellIdle /\ LinksIdle /\ DiscoveryIdle

Init ==
  /\ family \in Families
  /\ policy \in FamilyPolicies(family)
  /\ config \in FamilyConfigs(family)
  /\ disk \in FamilyDisks(family)
  /\ disk0 = disk
  /\ changeTracker = NewChangeTracker
  /\ pc = "start"
  /\ loop = 0
  /\ status = "none"
  /\ pending = <<>>
  /\ verify = <<>>
  /\ verifyCommands = <<>>
  /\ verifyIdx = 0
  /\ toolResults = <<>>
  /\ loopHadWrites = FALSE
  /\ loopVerifyFailed = FALSE
  /\ hadVerifyFailures = FALSE
  /\ consecutiveVerifyFailures = 0
  /\ completed = FALSE
  /\ maxIterationReached = FALSE
  /\ abortedByError = FALSE
  /\ stoppedEarly = FALSE
  /\ conversation = <<>>
  /\ changedByWrite = {}
  /\ auditOut = <<>>
  /\ auditFailed = {}
  /\ uiOut = <<>>
  /\ spawnOut = {}
  /\ fsOut = {}
  /\ pathIn = NoPath
  /\ pathOut = NoResolve
  /\ toolOut = NoTool
  /\ modelCalls = 0
  /\ rollbackPrompts = 0
  /\ restoredFiles = <<>>
  /\ lastVerifyFailed = FALSE
  /\ repairRounds = 0
  /\ rawText = NoText
  /\ response = NoResponse
  /\ ScannerNew
  /\ OtherUnitsNew

pathVars == <<pathIn, pathOut, toolOut>>

historyVars == <<rollbackPrompts, restoredFiles, lastVerifyFailed, repairRounds>>

\* the variables of the units that are run on their own
scannerVars == <<cachedIndex, inFlightScan, builds, callers>>

memoryVars == <<memoryFiles, kvHeap, stores, memCalls>>

\* the units that are run on their own, other than the parser and the scanner
auditVars == <<clock, sessions>>

shellVars == <<children>>

linkVars == <<symlinks, realOut>>

discoveryVars == <<discoverIn>>

otherUnitVars == <<memoryVars, auditVars, shellVars, linkVars, discoveryVars>>

unitVars == <<rawText, response, scannerVars, otherUnitVars>>

taskVars == <<family, policy, config, disk0, unitVars>>

flagVars == <<completed, maxIterationReached, abortedByError, stoppedEarly>>

verifyVars ==
  <<verifyCommands, verifyIdx, loopVerifyFailed, hadVerifyFailures,
    consecutiveVerifyFailures>>

responseVars == <<status, verify>>

\* safeAuditLog, lines 754-764: an error of audit.log is caught and dropped
swallowsOnlySuccess(failed) == failed = {}
swallows(failed) == TRUE

\* safeAuditLog and AuditLogger.log (auditLogger.ts, lines 26-38): each log
\* call of a step succeeds or fails with an IO error; the tasks of the
\* "logfaults" family run with an audit directory that may fail
AuditWrites ==
  \E failed \in IF family = "logfaults" THEN SUBSET (DOMAIN auditOut') ELSE {{}} :
    /\ swallows(failed)
    /\ auditFailed' = failed

\* runTask, lines 69-72: no API key
NoApiKey ==
  /\ pc = "start"
  /\ ~config.apiKey
  /\ pc' = "returned"
  /\ uiOut' = <<Message("error", "Missing API key")>>
  /\ auditOut' = <<>>
  /\ spawnOut' = {}
  /\ fsOut' = {}
  /\ UNCHANGED <<taskVars, modelCalls, historyVars, disk, changeTracker, loop, responseVars, pending,
                 verifyVars, toolResults, loopHadWrites, flagVars,
                 conversation, changedByWrite, pathVars>>
  /\ AuditWrites

\* runTask, lines 74-125: the task starts
TaskStart ==
  /\ pc = "start"
  /\ config.apiKey
  /\ pc' = "loop"
  /\ loop' = 1
  /\ conversation' = <<"system", "user: workspace", "user: task">>
  /\ auditOut' = <<"task_start">>
  /\ uiOut' = <<>>
  /\ spawnOut' = {}
  /\ fsOut' = {}
  /\ UNCHANGED <<taskVars, modelCalls, historyVars, disk, changeTracker, responseVars, pending,
                 verifyVars, toolResults, loopHadWrites, flagVars,
                 changedByWrite, pathVars>>
  /\ AuditWrites

\* the for loop with an off-by-one condition
loopContinuesOnceMore(l, maxIterations) == l <= maxIterations + 1

\* runTask, line 127: the condition of the for loop
loopContinues(l, maxIterations) == l <= maxIterations

\* runTask, lines 127-141: the Chat Client call fails
ModelCallFails ==
  /\ pc = "loop"
  /\ loopContinues(loop, config.maxIterations)
  /\ modelCalls' = modelCalls + 1
  /\ abortedByError' = TRUE
  /\ pc' = "postLoop"
  /\ auditOut' = <<"loop_start">>
  /\ uiOut' = <<Message("error", "Model call failed")>>
  /\ spawnOut' = {}
  /\ fsOut' = {}
  /\ UNCHANGED <<taskVars, historyVars, disk, changeTracker, loop, responseVars, pending,
                 verifyVars, toolResults, loopHadWrites, completed,
                 maxIterationReached, stoppedEarly, conversation,
                 changedByWrite, pathVars>>
  /\ AuditWrites

\* parseAgentModelResponse keeps the first 6 actions and 8 verify commands
ParsedActions(raw) == SubSeq(raw, 1, Min(Len(raw), 6))

ParsedVerify(raw) == SubSeq(raw, 1, Min(Len(raw), 8))

\* runTask, lines 127-169: the Chat Client answers and the answer is parsed
ModelResponds ==
  /\ pc = "loop"
  /\ loopContinues(loop, config.maxIterations)
  /\ modelCalls' = modelCalls + 1
  /\ \E st \in FamilyStatus(family),
        acts \in FamilyResponses(family),
        ver \in SeqUpTo(FamilyVerify(family), MaxVerify) :
       /\ status' = st
       /\ pending' = ParsedActions(acts)
       /\ verify' = ParsedVerify(ver)
  /\ toolResults' = <<>>
  /\ loopHadWrites' = FALSE
  /\ pc' = "actions"
  /\ auditOut' = <<"loop_start", "model_response">>
  /\ uiOut' = <<>>
  /\ spawnOut' = {}
  /\ fsOut' = {}
  /\ UNCHANGED <<taskVars, historyVars, disk, changeTracker, loop, verifyVars, flagVars,
                 conversation, changedByWrite, pathVars>>
  /\ AuditWrites

\* the for loop ran maxIterations times
LoopExhausted ==
  /\ pc = "loop"
  /\ ~loopContinues(loop, config.maxIterations)
  /\ pc' = "postLoop"
  /\ auditOut' = <<>>
  /\ uiOut' = <<>>
  /\ spawnOut' = {}
  /\ fsOut' = {}
  /\ UNCHANGED <<taskVars, modelCalls, historyVars, disk, changeTracker, loop, responseVars, pending,
                 verifyVars, toolResults, loopHadWrites, flagVars,
                 conversation, changedByWrite, pathVars>>
  /\ AuditWrites

(***************************************************************************)
(* executeAction                                                           *)
(***************************************************************************)
\* the secret gate with its policy test inverted
secretsBlockInverted(pol, findings) ==
  Len(findings) > 0 /\ pol.allowPotentialSecrets

\* executeAction, line 499
secretsBlock(pol, findings) ==
  Len(findings) > 0 /\ ~pol.allowPotentialSecrets

\* the write_file case with the approval test dropped
writeFileStageNoApproval(pathAllowed, secretsBlocked, inSandbox, unchanged, answer) ==
  IF ~pathAllowed THEN "blocked"
  ELSE IF secretsBlocked THEN "secrets"
  ELSE IF ~inSandbox THEN "threw"
  ELSE IF unchanged THEN "skipped"
  ELSE IF answer = "unavailable" THEN "confirm threw"
  ELSE "apply"

\* the write_file case asking for approval before its two gates
writeFileStagePromptFirst(pathAllowed, secretsBlocked, inSandbox, unchanged, answer) ==
  IF answer = "unavailable" THEN "confirm threw"
  ELSE IF answer # "yes" THEN "rejected"
  ELSE IF ~pathAllowed THEN "blocked"
  ELSE IF secretsBlocked THEN "secrets"
  ELSE IF ~inSandbox THEN "threw"
  ELSE IF unchanged THEN "skipped"
  ELSE "apply"

\* the control flow of the write_file case, lines 484-551: which return (or
\* throw) ends the action
writeFileStage(pathAllowed, secretsBlocked, inSandbox, unchanged, answer) ==
  IF ~pathAllowed THEN "blocked"
  ELSE IF secretsBlocked THEN "secrets"
  ELSE IF ~inSandbox THEN "threw"
  ELSE IF unchanged THEN "skipped"
  ELSE IF answer = "unavailable" THEN "confirm threw"
  ELSE IF answer # "yes" THEN "rejected"
  ELSE "apply"

\* the catch of executeAction, rethrowing
afterActionRethrow(threw) == IF threw THEN "crashed" ELSE "actions"

\* executeAction, lines 668-674: a thrown error becomes a result and the
\* for loop of runTask goes on
afterAction(threw) == "actions"

ToolFailed(tool) == Result(tool, FALSE, "Tool failed:", "error")

\* the write_file case of executeAction on disk d and tracker tr
executeWriteFile(pol, d, tr, action, answer) ==
  CHOOSE out \in
  { LET r == resolveWorkspacePath(WorkspaceRoot, action.path)
      after == action.content
      stage == writeFileStage(check.allowed, secretsBlock(pol, findings),
                              existed.ok /\ before.ok,
                              before.ok /\ before.value = after, answer)
      tr1 == recordBefore(tr, action.path, existed.value, before.value)
      tr2 == recordAfter(tr1, action.path, after)
      same == [disk |-> d, tracker |-> tr, wrote |-> {}]
      read == existed.touched \cup before.touched
  IN  CASE stage = "blocked" ->
             same @@ [ result |-> Result("write_file", FALSE,
                                         "Blocked by policy:", check.reason),
                       threw |-> FALSE, audit |-> <<>>, ui |-> <<>>,
                       touched |-> {} ]
        [] stage = "secrets" ->
             same @@ [ result |-> Result("write_file", FALSE,
                                         "Potential secrets detected.",
                                         "secrets"),
                       threw |-> FALSE, audit |-> <<>>, ui |-> <<>>,
                       touched |-> {} ]
        [] stage = "threw" ->
             same @@ [ result |-> ToolFailed("write_file"),
                       threw |-> TRUE, audit |-> <<>>, ui |-> <<>>,
                       touched |-> read ]
        [] stage = "skipped" ->
             same @@ [ result |-> Result("write_file", TRUE, "Skipped",
                                         "no content changes"),
                       threw |-> FALSE, audit |-> <<>>, ui |-> <<>>,
                       touched |-> read ]
        [] stage = "confirm threw" ->
             same @@ [ result |-> ToolFailed("write_file"),
                       threw |-> TRUE, audit |-> <<"write_proposed">>,
                       ui |-> <<Confirm("write", action.path, answer)>>,
                       touched |-> read ]
        [] stage = "rejected" ->
             same @@ [ result |-> Result("write_file", FALSE,
                                         "User rejected write", "rejected"),
                       threw |-> FALSE,
                       audit |-> <<"write_proposed", "write_rejected">>,
                       ui |-> <<Confirm("write", action.path, answer)>>,
                       touched |-> read ]
        [] ~w.ok ->
             [ disk |-> d, tracker |-> tr1, wrote |-> {},
               result |-> ToolFailed("write_file"), threw |-> TRUE,
               audit |-> <<"write_proposed">>,
               ui |-> <<Confirm("write", action.path, answer)>>,
               touched |-> read \cup w.touched ]
        [] OTHER ->
             [ disk |-> w.disk, tracker |-> tr2, wrote |-> {r.path},
               result |-> Result("write_file", TRUE, "Wrote", "changed"),
               threw |-> FALSE,
               audit |-> <<"write_proposed", "write_applied">>,
               ui |-> <<Confirm("write", action.path, answer)>>,
               touched |-> read \cup w.touched ] :
      check \in {isWritePathAllowed(pol, action.path)},
      findings \in {detectSecrets(action.content)},
      existed \in {fileExists(d, WorkspaceRoot, action.path)},
      before \in {readFileIfExists(d, WorkspaceRoot, action.path)},
      w \in {writeFile(d, WorkspaceRoot, action.path, action.content)} } : TRUE

\* the list_files and read_file cases of executeAction on disk d
executeReadOnly(d, workspaceRoot, action) ==
  CHOOSE out \in
    { [ result |-> IF x.ok THEN Result(action.tool, TRUE, "Read", "ok")
                 ELSE ToolFailed(action.tool),
      threw |-> ~x.ok,
      touched |-> x.touched ] :
        x \in {IF action.tool = "read_file"
         THEN readFileSegment(d, workspaceRoot, action.path)
         ELSE listFiles(d, workspaceRoot, action.path)} } : TRUE

\* what runShellCommand can do: exit with 0, exit with another code, be
\* killed at the timeout, or fail to spawn (the promise rejects)
RunOutcomes == {"exit 0", "exit 1", "timed out", "spawn error"}

\* the outcomes the commands of a family have
FamilyOutcomes(f) ==
  CASE f = "commands" -> RunOutcomes
    [] OTHER -> {"exit 0", "exit 1"}

\* the run_command case without its policy gate
executeRunCommandNoGate(pol, action, outcome) ==
  IF outcome = "spawn error"
    THEN [ result |-> ToolFailed("run_command"), threw |-> TRUE,
           spawned |-> {action.command} ]
    ELSE [ result |-> Result("run_command", outcome = "exit 0",
                             IF outcome = "exit 0" THEN "Command passed:"
                             ELSE "Command failed", outcome),
           threw |-> FALSE, spawned |-> {action.command} ]

\* the run_command case of executeAction, lines 451-482
executeRunCommand(pol, action, outcome) ==
  CHOOSE out \in
    { IF ~commandCheck.allowed
        THEN [ result |-> Result("run_command", FALSE, "Blocked by policy:",
                                 commandCheck.reason),
               threw |-> FALSE, spawned |-> {} ]
      ELSE IF outcome = "spawn error"
        THEN [ result |-> ToolFailed("run_command"), threw |-> TRUE,
               spawned |-> {action.command} ]
      ELSE [ result |-> Result("run_command", outcome = "exit 0",
                               IF outcome = "exit 0" THEN "Command passed:"
                               ELSE "Command failed", outcome),
             threw |-> FALSE, spawned |-> {action.command} ] :
        commandCheck \in {isCommandAllowed(pol, action.command)} } : TRUE

\* a verify command that the policy denies is skipped and taken as passed
runVerifyCommandSkipDenied(command, pol, outcome) ==
  IF ~isCommandAllowed(pol, command).allowed
    THEN [ result |-> Result("verify", TRUE, "Blocked by policy:",
                             isCommandAllowed(pol, command).reason),
           spawned |-> {} ]
  ELSE IF outcome = "spawn error"
    THEN [ result |-> Result("verify", FALSE, "Verify command error", outcome),
           spawned |-> {command} ]
  ELSE [ result |-> Result("verify", outcome = "exit 0",
                           IF outcome = "exit 0" THEN "Verify passed:"
                           ELSE "Verify failed", outcome),
         spawned |-> {command} ]

\* runVerifyCommand, lines 677-719
runVerifyCommand(command, pol, outcome) ==
  CHOOSE out \in
    { IF ~commandCheck.allowed
        THEN [ result |-> Result("verify", FALSE, "Blocked by policy:",
                                 commandCheck.reason),
               spawned |-> {} ]
      ELSE IF outcome = "spawn error"
        THEN [ result |-> Result("verify", FALSE, "Verify command error",
                                 outcome),
               spawned |-> {command} ]
      ELSE [ result |-> Result("verify", outcome = "exit 0",
                               IF outcome = "exit 0" THEN "Verify passed:"
                               ELSE "Verify failed", outcome),
             spawned |-> {command} ] :
        commandCheck \in {isCommandAllowed(pol, command)} } : TRUE

RECURSIVE loadPolicy(_, _)

\* the policy read from policy.json again at every decision
policyReloaded(loaded, d) == loadPolicy(d, pathResolve(WorkspaceRoot, StateDirUserPath)).policy

\* runTask, lines 76 and 171-176: the policy loaded at task start is the one
\* handed to executeAction and runVerifyCommand, whatever the disk holds
policyInForce(loaded, d) == loaded

\* runTask, lines 171-188, for a write_file action
ExecuteWriteFile ==
  /\ pc = "actions"
  /\ pending # <<>>
  /\ Head(pending).tool = "write_file"
  /\ \E answer \in AnswerSet :
       \E x \in {executeWriteFile(policyInForce(policy, disk), disk, changeTracker,
                                   Head(pending),
                                   answer)} :
           /\ disk' = x.disk
           /\ changeTracker' = x.tracker
           /\ changedByWrite' = changedByWrite \cup x.wrote
           /\ toolResults' = Append(toolResults, x.result)
           /\ loopHadWrites' = (loopHadWrites \/ x.result.ok)
           /\ auditOut' = x.audit \o <<"action_result">>
           /\ uiOut' = x.ui
           /\ fsOut' = x.touched
           /\ pc' = afterAction(x.threw)
  /\ pending' = Tail(pending)
  /\ spawnOut' = {}
  /\ UNCHANGED <<taskVars, modelCalls, historyVars, loop, responseVars, verifyVars, flagVars,
                 conversation, pathVars>>
  /\ AuditWrites

\* runTask, lines 171-188, for a run_command action
ExecuteRunCommand ==
  /\ pc = "actions"
  /\ pending # <<>>
  /\ Head(pending).tool = "run_command"
  /\ \E outcome \in FamilyOutcomes(family) :
       \E x \in {executeRunCommand(policyInForce(policy, disk), Head(pending),
                                    outcome)} :
           /\ toolResults' = Append(toolResults, x.result)
           /\ spawnOut' = x.spawned
           /\ pc' = afterAction(x.threw)
  /\ pending' = Tail(pending)
  /\ auditOut' = <<"action_result">>
  /\ uiOut' = <<>>
  /\ fsOut' = {}
  /\ UNCHANGED <<taskVars, modelCalls, historyVars, disk, changeTracker, loop, responseVars,
                 verifyVars, loopHadWrites, flagVars, conversation,
                 changedByWrite, pathVars>>
  /\ AuditWrites

\* runTask, lines 171-188, for a read_file or list_files action
ExecuteReadOnly ==
  /\ pc = "actions"
  /\ pending # <<>>
  /\ Head(pending).tool \in {"read_file", "list_files"}
  /\ \E x \in {executeReadOnly(disk, WorkspaceRoot, Head(pending))} :
       /\ toolResults' = Append(toolResults, x.result)
       /\ fsOut' = x.touched
       /\ pc' = afterAction(x.threw)
  /\ pending' = Tail(pending)
  /\ auditOut' = <<"action_result">>
  /\ uiOut' = <<>>
  /\ spawnOut' = {}
  /\ UNCHANGED <<taskVars, modelCalls, historyVars, disk, changeTracker, loop, responseVars,
                 verifyVars, loopHadWrites, flagVars, conversation,
                 changedByWrite, pathVars>>
  /\ AuditWrites

(***************************************************************************)
(* The verify phase.                                                       *)
(***************************************************************************)
\* the discovered commands put in front of the model's own verify commands
addMissingFirst(commands, found) == SelectSeq(found, LAMBDA c : c \notin Range(commands)) \o commands

\* verifyCommands.push of every discovered command not yet in the list
RECURSIVE addMissing(_, _)
addMissing(commands, found) ==
  IF found = <<>>
    THEN commands
    ELSE addMissing(IF Head(found) \in Range(commands) THEN commands
                    ELSE Append(commands, Head(found)),
                    Tail(found))

\* runTask, lines 190-208: the verify commands of the iteration
CollectVerify ==
  /\ pc = "actions"
  /\ pending = <<>>
  /\ \E found \in FamilyAutoVerify(family) :
       verifyCommands' =
         IF config.autoVerify /\ loopHadWrites
           THEN addMissing(verify, found)
           ELSE verify
  /\ verifyIdx' = 0
  /\ loopVerifyFailed' = FALSE
  /\ pc' = "verify"
  /\ auditOut' = <<>>
  /\ uiOut' = <<>>
  /\ spawnOut' = {}
  /\ fsOut' = {}
  /\ UNCHANGED <<taskVars, modelCalls, historyVars, disk, changeTracker, loop, responseVars, pending,
                 hadVerifyFailures, consecutiveVerifyFailures, toolResults,
                 loopHadWrites, flagVars, conversation, changedByWrite,
                 pathVars>>
  /\ AuditWrites

\* runTask, lines 209-223: one verify command
RunVerify ==
  /\ pc = "verify"
  /\ verifyIdx < Len(verifyCommands)
  /\ \E outcome \in FamilyOutcomes(family) :
       \E x \in {runVerifyCommand(verifyCommands[verifyIdx + 1],
                                   policyInForce(policy, disk),
                                   outcome)} :
           /\ toolResults' = Append(toolResults, x.result)
           /\ spawnOut' = x.spawned
           /\ hadVerifyFailures' = (hadVerifyFailures \/ ~x.result.ok)
           /\ loopVerifyFailed' = (loopVerifyFailed \/ ~x.result.ok)
           /\ lastVerifyFailed' = (loopVerifyFailed \/ ~x.result.ok)
  /\ verifyIdx' = verifyIdx + 1
  /\ auditOut' = <<"verify_result">>
  /\ uiOut' = <<>>
  /\ fsOut' = {}
  /\ UNCHANGED <<taskVars, modelCalls, rollbackPrompts, restoredFiles, repairRounds, disk, changeTracker, pc, loop, responseVars,
                 pending, verifyCommands, consecutiveVerifyFailures,
                 loopHadWrites, flagVars, conversation, changedByWrite,
                 pathVars>>
  /\ AuditWrites

\* the counter reset by every iteration without a failed verify command
countedAfterAny(failures, ran, failed) == IF failed THEN failures + 1 ELSE 0

\* runTask, lines 225-231: the counter after ran verify commands ran
countedAfter(failures, ran, failed) == IF ran > 0 THEN IF failed THEN failures + 1 ELSE 0 ELSE failures

countedFailures ==
  countedAfter(consecutiveVerifyFailures, Len(verifyCommands), loopVerifyFailed)

\* the limit taken as reached one failing iteration later
limitReachedLate(failures, rounds) == failures > rounds

\* runTask, line 234
limitReached(failures, rounds) == failures >= rounds

\* runTask, lines 233-236
repairLimitReached ==
  /\ limitReached(countedFailures, config.autoRepairMaxRounds)
  /\ hasChanges(changeTracker)

\* the answer to the repair limit prompt taken for a yes
keepTryingAlways(answer) == TRUE

\* runTask, lines 241-246: keepTrying
keepTrying(answer) == answer = "yes"

\* runTask, lines 225-250: the repair limit is reached and the user is asked
RepairPrompt ==
  /\ pc = "verify"
  /\ verifyIdx = Len(verifyCommands)
  /\ repairLimitReached
  /\ \E answer \in AnswerSet :
       /\ uiOut' = <<Confirm("repair", NoText, answer)>>
       /\ auditOut' = IF answer = "unavailable" THEN <<>>
                      ELSE <<"auto_repair_limit_reached">>
       /\ stoppedEarly' = (answer # "unavailable" /\ ~keepTrying(answer))
       /\ consecutiveVerifyFailures' =
            IF answer # "unavailable" /\ keepTrying(answer)
              THEN 0 ELSE countedFailures
       /\ pc' = CASE answer = "unavailable" -> "crashed"
                  [] keepTrying(answer) -> "resolve"
                  [] OTHER -> "postLoop"
  /\ repairRounds' = 0
  /\ spawnOut' = {}
  /\ fsOut' = {}
  /\ UNCHANGED <<taskVars, modelCalls, rollbackPrompts, restoredFiles, lastVerifyFailed, disk, changeTracker, loop, responseVars, pending,
                 verifyCommands, verifyIdx, loopVerifyFailed,
                 hadVerifyFailures, toolResults, loopHadWrites, completed,
                 maxIterationReached, abortedByError, conversation,
                 changedByWrite, pathVars>>
  /\ AuditWrites

\* runTask, lines 225-236: the repair limit is not reached
RepairSkip ==
  /\ pc = "verify"
  /\ verifyIdx = Len(verifyCommands)
  /\ ~repairLimitReached
  /\ consecutiveVerifyFailures' = countedFailures
  /\ repairRounds' = IF loopVerifyFailed THEN repairRounds + 1 ELSE 0
  /\ pc' = "resolve"
  /\ auditOut' = <<>>
  /\ uiOut' = <<>>
  /\ spawnOut' = {}
  /\ fsOut' = {}
  /\ UNCHANGED <<taskVars, modelCalls, rollbackPrompts, restoredFiles, lastVerifyFailed, disk, changeTracker, loop, responseVars, pending,
                 verifyCommands, verifyIdx, loopVerifyFailed,
                 hadVerifyFailures, toolResults, loopHadWrites, flagVars,
                 conversation, changedByWrite, pathVars>>
  /\ AuditWrites

(***************************************************************************)
(* The end of an iteration.  The variables declared inside the for loop    *)
(* go out of scope there.                                                  *)
(***************************************************************************)
\* runTask, lines 252-264
withResults(conv) == conv \o <<"assistant", "user: Tool results">>

VerifyFailedMessage ==
  "user: Verification failed. Continue and fix errors before marking done."

EndIteration ==
  /\ status' = "none"
  /\ verify' = <<>>
  /\ verifyCommands' = <<>>
  /\ verifyIdx' = 0
  /\ toolResults' = <<>>
  /\ loopHadWrites' = FALSE
  /\ loopVerifyFailed' = FALSE
  /\ spawnOut' = {}
  /\ fsOut' = {}
  /\ auditOut' = <<>>
  /\ UNCHANGED <<taskVars, modelCalls, historyVars, disk, changeTracker, pending, hadVerifyFailures,
                 consecutiveVerifyFailures, maxIterationReached,
                 stoppedEarly, changedByWrite, pathVars>>

\* runTask, lines 266-281: the agent asks the user
ResolveNeedUser ==
  /\ pc = "resolve"
  /\ status = "need_user"
  /\ \E answered \in BOOLEAN :
       /\ uiOut' = <<[kind |-> "ask", path |-> NoText,
                      answer |-> IF answered THEN "text" ELSE "unavailable"]>>
       /\ abortedByError' = (abortedByError \/ ~answered)
       /\ conversation' =
            IF answered
              THEN withResults(conversation) \o <<"user: User clarification">>
              ELSE withResults(conversation)
       /\ pc' = IF answered THEN "loop" ELSE "postLoop"
       /\ loop' = IF answered THEN loop + 1 ELSE loop
  /\ UNCHANGED completed
  /\ EndIteration
  /\ AuditWrites

\* done is accepted whatever the verify commands did
acceptDoneAlways(st, verifyFailed) == st = "done"

\* runTask, lines 283-295: done is accepted
acceptDone(st, verifyFailed) == st = "done" /\ ~verifyFailed

\* runTask, lines 283-295: the agent says done
ResolveDone ==
  /\ pc = "resolve"
  /\ status = "done"
  /\ IF acceptDone(status, loopVerifyFailed)
       THEN /\ completed' = TRUE
            /\ pc' = "postLoop"
            /\ loop' = loop
            /\ conversation' = withResults(conversation)
            /\ uiOut' = <<Message("info", "Task marked complete by the agent.")>>
       ELSE /\ completed' = completed
            /\ pc' = "loop"
            /\ loop' = loop + 1
            /\ conversation' =
                 withResults(conversation) \o <<VerifyFailedMessage>>
            /\ uiOut' = <<Message("warn", "Agent marked done, but verification failed.")>>
  /\ UNCHANGED abortedByError
  /\ EndIteration
  /\ AuditWrites

\* runTask, line 296: the agent goes on
ResolveContinue ==
  /\ pc = "resolve"
  /\ status = "continue"
  /\ pc' = "loop"
  /\ loop' = loop + 1
  /\ conversation' = withResults(conversation)
  /\ uiOut' = <<>>
  /\ UNCHANGED <<completed, abortedByError>>
  /\ EndIteration
  /\ AuditWrites

(***************************************************************************)
(* After the loop.                                                         *)
(***************************************************************************)
\* the iteration cap taken as reached by every task that was not completed
capReachedUnlessDone(done, aborted, stopped) == ~done

\* runTask, line 298: the loop ended by its condition
capReached(done, aborted, stopped) == ~done /\ ~aborted /\ ~stopped

\* runTask, lines 298-312
PostLoop ==
  /\ pc = "postLoop"
  /\ maxIterationReached' = capReached(completed, abortedByError, stoppedEarly)
  /\ auditOut' = IF hasChanges(changeTracker) THEN <<"change_summary">>
                 ELSE <<>>
  /\ uiOut' = <<>>
  /\ pc' = "rollback"
  /\ spawnOut' = {}
  /\ fsOut' = {}
  /\ UNCHANGED <<taskVars, modelCalls, historyVars, disk, changeTracker, loop, responseVars, pending,
                 verifyVars, toolResults, loopHadWrites, completed,
                 abortedByError, stoppedEarly, conversation, changedByWrite,
                 pathVars>>
  /\ AuditWrites

\* the rollback test without its look at completed
rollbackDueWhenDone(done, failures, changes) == failures /\ changes

\* runTask, line 314: the rollback test
rollbackDue(done, failures, changes) == ~done /\ failures /\ changes

\* runTask, line 314
rollbackOffered ==
  rollbackDue(completed, hadVerifyFailures, hasChanges(changeTracker))

\* the rollback applied whatever the user answered
rollbackAppliedAlways(answer) == answer # "unavailable"

\* runTask, line 318: if (shouldRollback)
rollbackApplied(answer) == answer = "yes"

\* runTask, lines 314-337: the user is asked about the rollback
RollbackPrompt ==
  /\ pc = "rollback"
  /\ rollbackOffered
  /\ rollbackPrompts' = rollbackPrompts + 1
  /\ \E answer \in AnswerSet :
       \E x \in {rollback(changeTracker, disk, WorkspaceRoot)} :
           /\ uiOut' = <<Confirm("rollback", NoText, answer)>>
           /\ disk' = IF rollbackApplied(answer) THEN x.disk ELSE disk
           /\ fsOut' = IF rollbackApplied(answer) THEN x.touched ELSE {}
           /\ restoredFiles' =
                IF rollbackApplied(answer) THEN x.restored ELSE <<>>
           /\ auditOut' = IF rollbackApplied(answer)
                            THEN <<"rollback", "task_end">>
                          ELSE IF answer = "unavailable" THEN <<>>
                          ELSE <<"task_end">>
           /\ pc' = IF answer = "unavailable" THEN "crashed" ELSE "finished"
  /\ spawnOut' = {}
  /\ UNCHANGED <<taskVars, modelCalls, lastVerifyFailed, repairRounds, changeTracker, loop,
                 responseVars, pending, verifyVars, toolResults, loopHadWrites, flagVars,
                 conversation, changedByWrite, pathVars>>
  /\ AuditWrites

\* runTask, lines 314-337: no rollback is offered
TaskEnd ==
  /\ pc = "rollback"
  /\ ~rollbackOffered
  /\ pc' = "finished"
  /\ auditOut' = <<"task_end">>
  /\ uiOut' = <<>>
  /\ spawnOut' = {}
  /\ fsOut' = {}
  /\ UNCHANGED <<taskVars, modelCalls, historyVars, disk, changeTracker, loop, responseVars, pending,
                 verifyVars, toolResults, loopHadWrites, flagVars,
                 conversation, changedByWrite, pathVars>>
  /\ AuditWrites

Next ==
  \/ NoApiKey
  \/ TaskStart
  \/ ModelCallFails
  \/ ModelResponds
  \/ LoopExhausted
  \/ ExecuteWriteFile
  \/ ExecuteRunCommand
  \/ ExecuteReadOnly
  \/ CollectVerify
  \/ RunVerify
  \/ RepairPrompt
  \/ RepairSkip
  \/ ResolveNeedUser
  \/ ResolveDone
  \/ ResolveContinue
  \/ PostLoop
  \/ RollbackPrompt
  \/ TaskEnd

Spec == Init /\ [][Next]_vars

\* the tasks whose termination is examined: those of the "loop" family
\* with the smallest repair limit (or without an API key), the "commands"
\* tasks under the default policy without auto-verify, and the "faults"
\* tasks under a policy that blocks writes
InitFair ==
  /\ Init
  /\ \/ family = "loop" /\ (config.autoRepairMaxRounds = 1 \/ ~config.apiKey)
     \/ family = "commands" /\ policy = DEFAULT_POLICY /\ ~config.autoVerify
     \/ family = "faults" /\ ~policy.allowWrite

\* every call of runTask (to the Chat Client, a tool or the UI) returns or
\* throws: a task that can take a step takes one
SpecFair == InitFair /\ [][Next]_vars /\ WF_vars(Next)

(***************************************************************************)
(* The sandbox on its own: resolveWorkspacePath and each file tool, for    *)
(* every workspace root of Roots and every path of at most MaxPathLen      *)
(* characters of PathChars.                                                *)
(***************************************************************************)
Roots == {<<"/">>, <<"/", "w">>, <<"/", "w", "/", "a">>}

PathChars == {"/", ".", "w", "a"}

FileTools ==
  { "list_files", "read_file", "writeFile", "readFileIfExists", "fileExists",
    "deleteFileIfExists" }

InitPath ==
  /\ pathIn \in [root : Roots, userPath : SeqUpTo(PathChars, MaxPathLen)]
  /\ pathOut = NoResolve
  /\ toolOut = NoTool
  /\ modelCalls = 0
  /\ rollbackPrompts = 0
  /\ restoredFiles = <<>>
  /\ lastVerifyFailed = FALSE
  /\ repairRounds = 0
  /\ rawText = NoText
  /\ response = NoResponse
  /\ ScannerNew
  /\ OtherUnitsNew
  /\ family = "paths"
  /\ policy = DEFAULT_POLICY
  /\ config = DefaultConfig
  /\ disk = (pathResolve(pathIn.root, PathA) :> TextX)
  /\ disk0 = disk
  /\ changeTracker = NewChangeTracker
  /\ pc = "path"
  /\ loop = 0
  /\ status = "none"
  /\ pending = <<>>
  /\ verify = <<>>
  /\ verifyCommands = <<>>
  /\ verifyIdx = 0
  /\ toolResults = <<>>
  /\ loopHadWrites = FALSE
  /\ loopVerifyFailed = FALSE
  /\ hadVerifyFailures = FALSE
  /\ consecutiveVerifyFailures = 0
  /\ completed = FALSE
  /\ maxIterationReached = FALSE
  /\ abortedByError = FALSE
  /\ stoppedEarly = FALSE
  /\ conversation = <<>>
  /\ changedByWrite = {}
  /\ auditOut = <<>>
  /\ auditFailed = {}
  /\ uiOut = <<>>
  /\ spawnOut = {}
  /\ fsOut = {}

agentVars ==
  << taskVars, modelCalls, historyVars, changeTracker, pc, loop,
     responseVars, pending, verifyVars,
     toolResults, loopHadWrites, flagVars, conversation, changedByWrite,
     auditOut, auditFailed, uiOut, spawnOut >>

\* resolveWorkspacePath(root, userPath)
PathResolve ==
  /\ pc = "path"
  /\ ~pathOut.done
  /\ pathOut' = [done |-> TRUE]
                 @@ resolveWorkspacePath(pathIn.root, pathIn.userPath)
  /\ UNCHANGED <<agentVars, disk, fsOut, pathIn, toolOut>>

\* one file tool called with (root, userPath)
PathFileTool ==
  /\ pc = "path"
  /\ pathOut.done
  /\ toolOut = NoTool
  /\ \E tool \in FileTools :
       LET root == pathIn.root
           p == pathIn.userPath
           x == CASE tool = "list_files" ->
                       executeReadOnly(disk, root, ListAction(p))
                  [] tool = "read_file" ->
                       executeReadOnly(disk, root, ReadAction(p))
                  [] tool = "writeFile" -> writeFile(disk, root, p, TextY)
                  [] tool = "readFileIfExists" ->
                       readFileIfExists(disk, root, p)
                  [] tool = "fileExists" -> fileExists(disk, root, p)
                  [] OTHER -> deleteFileIfExists(disk, root, p)
       IN  /\ toolOut' =
                [ tool |-> tool,
                  ok |-> IF tool \in {"list_files", "read_file"}
                           THEN x.result.ok ELSE x.ok ]
           /\ disk' = IF tool \in {"writeFile", "deleteFileIfExists"}
                        THEN x.disk ELSE disk
           /\ fsOut' = x.touched
  /\ UNCHANGED <<agentVars, pathIn, pathOut>>

NextPath == PathResolve \/ PathFileTool

SpecPath == InitPath /\ [][NextPath]_vars

RollbackCorrect ==
  (pc = "finished" /\ "rollback" \in Range(auditOut)) =>
    \A p \in DOMAIN changeTracker.snapshots :
      LET f == resolveWorkspacePath(WorkspaceRoot, p).path
      IN  IF f \in DOMAIN disk0
            THEN f \in DOMAIN disk /\ disk[f] = disk0[f]
            ELSE f \notin DOMAIN disk

\* C3 (policy precedence for commands): a step spawns a shell process only
\* for the run_command action or the verify command (model-supplied or
\* auto-discovered) it dispatches, and only when isCommandAllowed allows
\* that command under the session policy; when it denies, the step spawns
\* nothing and appends a tool result with ok = FALSE and the summary
\* "Blocked by policy:".
CommandPolicyPrecedence ==
  [][ LET isRun == /\ pc = "actions"
                   /\ pending # <<>>
                   /\ Head(pending).tool = "run_command"
          isVerify == pc = "verify" /\ verifyIdx' = verifyIdx + 1
          command == IF isRun THEN Head(pending).command
                     ELSE verifyCommands[verifyIdx + 1]
      IN  IF isRun \/ isVerify
            THEN IF isCommandAllowed(policy, command).allowed
                   THEN spawnOut' \subseteq {command}
                   ELSE /\ spawnOut' = {}
                        /\ Len(toolResults') = Len(toolResults) + 1
                        /\ ~toolResults'[Len(toolResults')].ok
                        /\ toolResults'[Len(toolResults')].summary
                             = "Blocked by policy:"
            ELSE spawnOut' = {}
    ]_vars

\* a denied run_command action, a denied verify command of the model and a
\* denied auto-discovered verify command were all answered in one iteration
CommandPolicyWitness ==
  /\ pc = "verify"
  /\ verifyIdx = 2
  /\ Len(toolResults) = 4
  /\ verify = <<CmdRm>>
  /\ verifyCommands = <<CmdRm, CmdLs>>
  /\ ~policy.allowRunCommand
  /\ \A i \in {1, 3, 4} : toolResults[i].summary = "Blocked by policy:"
  /\ toolResults[1].tool = "run_command"
  /\ toolResults[2].summary = "Wrote"
  /\ spawnOut = {}

\* C4 (policy precedence for writes): a write_file action whose path is
\* denied (allowWrite is false or a blocked glob matches the path) returns
\* ok = FALSE and has no side effect: the disk is unchanged, nothing on the
\* filesystem is touched, the user is not asked and the change tracker is
\* unchanged.
WritePolicyPrecedence ==
  [][ ( /\ pc = "actions"
        /\ pending # <<>>
        /\ Head(pending).tool = "write_file"
        /\ \/ ~policy.allowWrite
           \/ \E i \in DOMAIN policy.blockedWriteGlobs :
                regexTestAnchored(
                  globToRegExp(policy.blockedWriteGlobs[i]),
                  normalizePathForPolicy(Head(pending).path)) )
      => /\ Len(toolResults') = Len(toolResults) + 1
         /\ ~toolResults'[Len(toolResults')].ok
         /\ toolResults'[Len(toolResults')].tool = "write_file"
         /\ disk' = disk
         /\ fsOut' = {}
         /\ uiOut' = <<>>
         /\ changeTracker' = changeTracker
    ]_vars

\* a write of .git/c and a write of .env were denied by the blocked globs
\* of the default policy
WritePolicyWitness ==
  /\ policy = DEFAULT_POLICY
  /\ Len(toolResults) = 2
  /\ \A i \in 1..2 :
       /\ toolResults[i].reason = "Write path blocked by policy glob"
       /\ toolResults[i].summary = "Blocked by policy:"
  /\ pending = <<>>
  /\ disk = disk0

\* C5 (blocked sensitive write paths): under the default policy no
\* write_file action creates or modifies a file inside the .git directory
\* of the workspace or a file named .env, however the action spells the
\* path.
SensitivePathsBlocked ==
  policy = DEFAULT_POLICY =>
    \A f \in changedByWrite :
      LET segs == normalizeSegs(Segments(f), <<>>)
          depth == Len(normalizeSegs(Segments(WorkspaceRoot), <<>>))
      IN  /\ ~(Len(segs) > depth + 1
                 /\ segs[depth + 1] = <<".", "g", "i", "t">>)
          /\ segs[Len(segs)] # <<".", "e", "n", "v">>

\* C6 (secret blocking): a write_file action executed while
\* allowPotentialSecrets is false and whose content detectSecrets flags
\* returns ok = FALSE, leaves the disk as it was, shows no approval prompt
\* and records no snapshot.
SecretBlocking ==
  [][ ( /\ pc = "actions"
        /\ pending # <<>>
        /\ Head(pending).tool = "write_file"
        /\ ~policy.allowPotentialSecrets
        /\ detectSecrets(Head(pending).content) # <<>> )
      => /\ Len(toolResults') = Len(toolResults) + 1
         /\ ~toolResults'[Len(toolResults')].ok
         /\ disk' = disk
         /\ uiOut' = <<>>
         /\ changeTracker' = changeTracker
    ]_vars

\* a write of a Groq-style key to an allowed path was answered "Potential
\* secrets detected."
SecretBlockingWitness ==
  /\ policy.allowWrite
  /\ ~policy.allowPotentialSecrets
  /\ toolResults # <<>>
  /\ toolResults[Len(toolResults)].summary = "Potential secrets detected."
  /\ disk = disk0
  /\ changeTracker = NewChangeTracker

\* C7 (human-controlled editing): a write_file action changes the disk only
\* when the user answered yes to the approval prompt for the path of that
\* action in that same step, no other step of the action and verify phases
\* changes it, and when the user declines the action returns ok = FALSE,
\* the disk and the change tracker are unchanged and the loop goes on with
\* the next action.
HumanControlledEditing ==
  [][ /\ (pc \in {"start", "loop", "actions", "verify", "resolve", "postLoop"}
            /\ disk' # disk)
         => /\ pc = "actions"
            /\ pending # <<>>
            /\ Head(pending).tool = "write_file"
            /\ uiOut' = <<Confirm("write", Head(pending).path, "yes")>>
      /\ ( /\ pc = "actions"
           /\ pending # <<>>
           /\ Head(pending).tool = "write_file"
           /\ uiOut' = <<Confirm("write", Head(pending).path, "no")>> )
         => /\ Len(toolResults') = Len(toolResults) + 1
            /\ ~toolResults'[Len(toolResults')].ok
            /\ disk' = disk
            /\ changeTracker' = changeTracker
            /\ pc' = "actions"
            /\ pending' = Tail(pending)
    ]_vars

\* the user declined a first write and approved the next one, which was
\* then applied
HumanControlledWitness ==
  /\ Len(toolResults) = 2
  /\ toolResults[1].summary = "User rejected write"
  /\ toolResults[2].summary = "Wrote"
  /\ uiOut = <<Confirm("write", PathA, "yes")>>
  /\ disk # disk0

\* C8 (sandbox soundness): for every workspace root and every path,
\* resolveWorkspacePath returns an absolute normalised path that is the root
\* or a proper descendant of it, or throws; every file tool touches only
\* paths that are the root or descendants of it, and when the check throws
\* the tool fails, touches nothing and leaves the disk as it was; a
\* read_file of ../a in the root /w returns ok = FALSE and touches nothing.
SandboxSoundness ==
  LET rootSegs == normalizeSegs(Segments(pathIn.root), <<>>)
      within(p) ==
        LET segs == Segments(p)
        IN  /\ isAbsolute(p)
            /\ p = <<Sep>> \/
                 \A i \in 2..Len(segs) :
                   segs[i] \notin {<<>>, <<".">>, <<".", ".">>}
            /\ Len(normalizeSegs(segs, <<>>)) >= Len(rootSegs)
            /\ SubSeq(normalizeSegs(segs, <<>>), 1, Len(rootSegs)) = rootSegs
  IN  /\ (pathOut.done /\ pathOut.ok) => within(pathOut.path)
      /\ \A p \in fsOut : within(p)
      /\ (toolOut # NoTool /\ ~pathOut.ok)
           => (~toolOut.ok /\ fsOut = {} /\ disk = disk0)
      /\ ( /\ toolOut.tool = "read_file"
           /\ pathIn.root = WorkspaceRoot
           /\ pathIn.userPath = <<".", ".", "/", "a">> )
         => (~toolOut.ok /\ fsOut = {})

\* writeFile was refused the path ../wa of the root /w, whose resolution
\* /wa begins with the characters of the root
SandboxWitness ==
  /\ pathIn = [root |-> WorkspaceRoot, userPath |-> <<".", ".", "/", "w", "a">>]
  /\ pathOut = [done |-> TRUE, ok |-> FALSE, path |-> <<>>]
  /\ toolOut = [tool |-> "writeFile", ok |-> FALSE]
  /\ disk = disk0

\* C9 (a failing action never kills the loop): the actions of a model
\* response are dispatched one at a time, in order and once each; every
\* dispatch appends exactly one tool result, of the tool of that action,
\* and logs exactly one action_result event, and leaves the loop in its
\* action phase whatever the result is; a path outside the sandbox becomes
\* the result ok = FALSE "Tool failed:"; the verify phase starts only when
\* no action is left.
FailingActionKeepsLoop ==
  [][ /\ (pc = "actions" /\ pending # <<>>)
         => /\ pending' = Tail(pending)
            /\ Len(toolResults') = Len(toolResults) + 1
            /\ SubSeq(toolResults', 1, Len(toolResults)) = toolResults
            /\ toolResults'[Len(toolResults')].tool = Head(pending).tool
            /\ Len(SelectSeq(auditOut', LAMBDA e : e = "action_result")) = 1
            /\ pc' = "actions"
            /\ ( /\ Head(pending).tool \in {"read_file", "list_files"}
                 /\ ~resolveWorkspacePath(WorkspaceRoot,
                                          Head(pending).path).ok )
               => /\ ~toolResults'[Len(toolResults')].ok
                  /\ toolResults'[Len(toolResults')].summary = "Tool failed:"
      /\ pending' # pending
         => \/ pc = "actions" /\ pending # <<>>
            \/ pc = "loop" /\ pc' = "actions" /\ Len(pending') <= 6
      /\ (pc = "actions" /\ pc' # "actions") => pending = <<>>
    ]_vars

\* an action that escaped the sandbox threw, and the action after it ran
FailingActionWitness ==
  /\ pc = "actions"
  /\ pending = <<>>
  /\ Len(toolResults) = 2
  /\ toolResults[1] = ToolFailed("read_file")
  /\ toolResults[2].summary = "Wrote"
  /\ auditOut = <<"write_proposed", "write_applied", "action_result">>

\* C10, as claimed (done is accepted only on a clean iteration): the task
\* is marked completed only in an iteration whose status is done and in
\* which no verify command failed; an iteration whose status is done and in
\* which a verify command failed ends with the task not completed, the
\* "Verification failed" message appended and the loop continuing.
DoneOnlyWhenClean ==
  [][ /\ (completed' /\ ~completed)
         => (status = "done" /\ ~loopVerifyFailed)
      /\ ( /\ pc \in {"verify", "resolve"}
           /\ pc' \notin {"verify", "resolve"}
           /\ status = "done"
           /\ loopVerifyFailed )
         => /\ ~completed'
            /\ conversation' # <<>>
            /\ conversation'[Len(conversation')] = VerifyFailedMessage
            /\ pc' = "loop"
            /\ loop' = loop + 1
    ]_vars

\* C10, amended: as above, except that an iteration in which the repair
\* limit prompt was shown and not answered yes ends the loop without the
\* message.
DoneOnlyWhenCleanUnlessStopped ==
  [][ /\ (completed' /\ ~completed)
         => (status = "done" /\ ~loopVerifyFailed)
      /\ ( /\ pc \in {"verify", "resolve"}
           /\ pc' \notin {"verify", "resolve"}
           /\ status = "done"
           /\ loopVerifyFailed )
         => /\ ~completed'
            /\ \/ /\ conversation' # <<>>
                  /\ conversation'[Len(conversation')] = VerifyFailedMessage
                  /\ Len(conversation') = Len(conversation) + 3
                  /\ pc' = "loop"
                  /\ loop' = loop + 1
               \/ /\ pc = "verify"
                  /\ uiOut' \in {<<Confirm("repair", NoText, a)>> :
                                   a \in {"no", "unavailable"}}
                  /\ conversation' = conversation
                  /\ pc' \in {"postLoop", "crashed"}
    ]_vars

\* a done with a failed verify command was overridden and the loop went on
DoneOverriddenWitness ==
  /\ pc = "loop"
  /\ loop = 2
  /\ ~completed
  /\ conversation # <<>>
  /\ conversation[Len(conversation)] = VerifyFailedMessage
  /\ hadVerifyFailures

\* C11 (bounded loop and termination): the Chat Client is called at most
\* maxIterations times in a task; an iteration that ends in need_user and
\* an iteration whose done was overridden each use up one iteration; and
\* the task terminates.
BoundedLoopTerminates ==
  /\ [](modelCalls <= config.maxIterations)
  /\ [][ /\ modelCalls' \in {modelCalls, modelCalls + 1}
         /\ modelCalls' = modelCalls + 1 => (pc = "loop" /\ loop = modelCalls')
         /\ (pc = "resolve" /\ pc' = "loop") => loop' = loop + 1
     ]_vars
  /\ <>(pc \in {"returned", "finished", "crashed"})

\* a task of two iterations, the first one ending with its done overridden,
\* called the Chat Client twice and ended at the iteration cap
BoundedLoopWitness ==
  /\ pc = "finished"
  /\ config.maxIterations = 2
  /\ modelCalls = 2
  /\ maxIterationReached
  /\ VerifyFailedMessage \in Range(conversation)

\* C12 (finalization): every task that logged task_start eventually logs
\* task_end, exactly once and as its last audit event, whichever way the
\* loop ended, also when the repair-limit prompt or the rollback prompt
\* cannot be answered.
TaskEndAlwaysLast ==
  /\ ("task_start" \in Range(auditOut)) ~> ("task_end" \in Range(auditOut))
  /\ [][ /\ "task_end" \in Range(auditOut') =>
              /\ pc' = "finished"
              /\ auditOut'[Len(auditOut')] = "task_end"
              /\ Cardinality({i \in DOMAIN auditOut' :
                                auditOut'[i] = "task_end"}) = 1
         /\ pc # "finished"
     ]_vars

\* C13 (no rollback after an abort): once the loop was aborted (the Chat
\* Client call failed, or the agent needed the user and the input was
\* unavailable), the user is not asked about a rollback, no file is
\* restored and no rollback event is logged, whatever was written and
\* whatever verify command failed before.
NoRollbackAfterAbort ==
  [][ abortedByError' =>
        /\ "rollback" \notin Range(auditOut')
        /\ pc = "rollback" => (uiOut' = <<>> /\ disk' = disk)
    ]_vars

\* C14 (rollback offer and application): when the loop ended at the
\* iteration cap or with the user declining further repair, the tracker has
\* changes and a verify command failed in the task, the rollback prompt is
\* shown, once in the task; on yes the rollback is applied and one rollback
\* event with the restored paths is logged, after every write_applied
\* event; on no, no file is touched and no rollback event is logged.
RollbackOfferedOnce ==
  /\ [](rollbackPrompts <= 1)
  /\ [][ /\ ( /\ pc = "rollback"
              /\ maxIterationReached \/ stoppedEarly
              /\ hasChanges(changeTracker)
              /\ hadVerifyFailures )
            => LET x == rollback(changeTracker, disk, WorkspaceRoot)
                   yes == <<Confirm("rollback", NoText, "yes")>>
                   no == <<Confirm("rollback", NoText, "no")>>
               IN  /\ rollbackPrompts' = 1
                   /\ uiOut' \in {<<Confirm("rollback", NoText, a)>> :
                                    a \in AnswerSet}
                   /\ uiOut' = yes =>
                        /\ disk' = x.disk
                        /\ fsOut' = x.touched
                        /\ auditOut' = <<"rollback", "task_end">>
                        /\ restoredFiles' = x.restored
                        /\ { resolveWorkspacePath(WorkspaceRoot, f).path :
                               f \in Range(restoredFiles') } = fsOut'
                   /\ uiOut' = no =>
                        /\ disk' = disk
                        /\ fsOut' = {}
                        /\ restoredFiles' = <<>>
                        /\ "rollback" \notin Range(auditOut')
         /\ "rollback" \in Range(auditOut) =>
              "write_applied" \notin Range(auditOut')
     ]_vars

\* the user declined further repair, accepted the rollback, and the file
\* written in the task was restored
RollbackOfferedWitness ==
  /\ pc = "finished"
  /\ stoppedEarly
  /\ auditOut = <<"rollback", "task_end">>
  /\ restoredFiles = <<PathA>>
  /\ fsOut = {pathResolve(WorkspaceRoot, PathA)}
  /\ disk = disk0

\* C15 (rollback only for unresolved failures): when every verify command
\* of the last iteration that ran verify commands passed, the task ends
\* without a rollback prompt, even when a verify command failed in an
\* earlier iteration.
NoRollbackOnceVerifyPasses ==
  (pc \in {"finished", "crashed"} /\ ~lastVerifyFailed) => rollbackPrompts = 0

\* C16, as claimed (repair limit prompt): at the end of the verify phase
\* the user is asked to continue or stop exactly when the consecutive
\* verify failures reached autoRepairMaxRounds and the tracker has changes;
\* on stop the loop exits with stoppedEarly and no Chat Client call, action
\* or verify command follows; on continue the loop proceeds to the next
\* iteration.
RepairPromptThenNextIteration ==
  [][ LET counted ==
            IF Len(verifyCommands) > 0
              THEN IF loopVerifyFailed THEN consecutiveVerifyFailures + 1
                   ELSE 0
              ELSE consecutiveVerifyFailures
          asked(a) == <<Confirm("repair", NoText, a)>>
      IN  /\ (pc = "verify" /\ verifyIdx = Len(verifyCommands)) =>
               /\ (uiOut' \in {asked(a) : a \in AnswerSet})
                    <=> ( /\ counted >= config.autoRepairMaxRounds
                          /\ hasChanges(changeTracker) )
               /\ uiOut' = asked("no") => (stoppedEarly' /\ pc' = "postLoop")
               /\ uiOut' = asked("yes") => (~stoppedEarly' /\ pc' = "resolve")
          /\ stoppedEarly =>
               /\ pc \in {"postLoop", "rollback"}
               /\ modelCalls' = modelCalls
               /\ toolResults' = toolResults
               /\ verifyIdx' = verifyIdx
               /\ spawnOut' = {}
          /\ (pc = "resolve" /\ uiOut = asked("yes")) =>
               (pc' = "loop" /\ loop' = loop + 1)
    ]_vars

\* C16, amended: as above, except that on continue the iteration ends as it
\* would have without the prompt: the loop proceeds to the next iteration
\* unless the status is done and no verify command of the iteration failed
\* (the task is completed) or the status is need_user and the input is
\* unavailable (the task is aborted).
RepairPromptThenStatus ==
  [][ LET counted ==
            IF Len(verifyCommands) > 0
              THEN IF loopVerifyFailed THEN consecutiveVerifyFailures + 1
                   ELSE 0
              ELSE consecutiveVerifyFailures
          asked(a) == <<Confirm("repair", NoText, a)>>
      IN  /\ (pc = "verify" /\ verifyIdx = Len(verifyCommands)) =>
               /\ (uiOut' \in {asked(a) : a \in AnswerSet})
                    <=> ( /\ counted >= config.autoRepairMaxRounds
                          /\ hasChanges(changeTracker) )
               /\ uiOut' = asked("no") => (stoppedEarly' /\ pc' = "postLoop")
               /\ uiOut' = asked("yes") =>
                    /\ ~stoppedEarly'
                    /\ pc' = "resolve"
                    /\ consecutiveVerifyFailures' = 0
          /\ stoppedEarly =>
               /\ pc \in {"postLoop", "rollback"}
               /\ modelCalls' = modelCalls
               /\ toolResults' = toolResults
               /\ verifyIdx' = verifyIdx
               /\ spawnOut' = {}
          /\ (pc = "resolve" /\ uiOut = asked("yes")) =>
               \/ pc' = "loop" /\ loop' = loop + 1
               \/ /\ status = "done"
                  /\ ~loopVerifyFailed
                  /\ completed'
                  /\ pc' = "postLoop"
               \/ /\ status = "need_user"
                  /\ abortedByError'
                  /\ pc' = "postLoop"
    ]_vars

\* the user chose to continue at the repair limit prompt of an iteration
\* without verify commands whose status was done, and the task was completed
RepairPromptWitness ==
  /\ pc = "postLoop"
  /\ completed
  /\ consecutiveVerifyFailures = 0
  /\ hadVerifyFailures
  /\ uiOut = <<Message("info", "Task marked complete by the agent.")>>
  /\ loop = 2
  /\ config.autoRepairMaxRounds = 1

\* C17, as claimed (repair budget): a Chat Client call is never made after
\* autoRepairMaxRounds or more consecutive iterations with a failed verify
\* command unless the repair limit prompt was shown since.
RepairBudget ==
  [][ modelCalls' = modelCalls + 1 =>
        repairRounds < config.autoRepairMaxRounds ]_vars

\* C17, amended: a Chat Client call is made after autoRepairMaxRounds or
\* more consecutive iterations with a failed verify command and no prompt
\* only while the change tracker has no changes.
RepairBudgetWithChanges ==
  [][ modelCalls' = modelCalls + 1 =>
        \/ repairRounds < config.autoRepairMaxRounds
        \/ ~hasChanges(changeTracker) ]_vars

\* the prompt was shown after two consecutive failing iterations with a
\* tracked change, the limit being two, and the user chose to continue
RepairBudgetWitness ==
  /\ pc = "resolve"
  /\ uiOut = <<Confirm("repair", NoText, "yes")>>
  /\ config.autoRepairMaxRounds = 2
  /\ loop = 2
  /\ modelCalls = 2
  /\ repairRounds = 0
  /\ hasChanges(changeTracker)

(***************************************************************************)
(* The response parser (responseParser.ts).  A text is a sequence of       *)
(* characters.  A value of JavaScript is a record with its type in t:      *)
(* undefined, null, bool, num, str, arr (items) and obj (members, in the   *)
(* order of the text).  The numbers of the texts parsed here are unsigned  *)
(* integers and their strings hold no escape; a num keeps its digits.      *)
(***************************************************************************)
\* the words of the parser and of the texts given to it, spelled out
Str ==
  [
    status |->
      <<"s", "t", "a", "t", "u", "s">>,
    assistant_message |->
      <<"a", "s", "s", "i", "s", "t", "a", "n", "t", "_", "m", "e", "s", "s", "a", "g", "e">>,
    plan |->
      <<"p", "l", "a", "n">>,
    actions |->
      <<"a", "c", "t", "i", "o", "n", "s">>,
    verify |->
      <<"v", "e", "r", "i", "f", "y">>,
    question |->
      <<"q", "u", "e", "s", "t", "i", "o", "n">>,
    memory_updates |->
      <<"m", "e", "m", "o", "r", "y", "_", "u", "p", "d", "a", "t", "e", "s">>,
    tool |->
      <<"t", "o", "o", "l">>,
    path |->
      <<"p", "a", "t", "h">>,
    recursive |->
      <<"r", "e", "c", "u", "r", "s", "i", "v", "e">>,
    depth |->
      <<"d", "e", "p", "t", "h">>,
    maxEntries |->
      <<"m", "a", "x", "E", "n", "t", "r", "i", "e", "s">>,
    startLine |->
      <<"s", "t", "a", "r", "t", "L", "i", "n", "e">>,
    endLine |->
      <<"e", "n", "d", "L", "i", "n", "e">>,
    pattern |->
      <<"p", "a", "t", "t", "e", "r", "n">>,
    glob |->
      <<"g", "l", "o", "b">>,
    maxMatches |->
      <<"m", "a", "x", "M", "a", "t", "c", "h", "e", "s">>,
    command |->
      <<"c", "o", "m", "m", "a", "n", "d">>,
    content |->
      <<"c", "o", "n", "t", "e", "n", "t">>,
    refresh |->
      <<"r", "e", "f", "r", "e", "s", "h">>,
    maxFiles |->
      <<"m", "a", "x", "F", "i", "l", "e", "s">>,
    query |->
      <<"q", "u", "e", "r", "y">>,
    language |->
      <<"l", "a", "n", "g", "u", "a", "g", "e">>,
    limit |->
      <<"l", "i", "m", "i", "t">>,
    symbol |->
      <<"s", "y", "m", "b", "o", "l">>,
    key |->
      <<"k", "e", "y">>,
    value |->
      <<"v", "a", "l", "u", "e">>,
    projectRules |->
      <<"p", "r", "o", "j", "e", "c", "t", "R", "u", "l", "e", "s">>,
    architectureNotes |->
      <<"a", "r", "c", "h", "i", "t", "e", "c", "t", "u", "r", "e", "N", "o", "t", "e", "s">>,
    commonCommands |->
      <<"c", "o", "m", "m", "o", "n", "C", "o", "m", "m", "a", "n", "d", "s">>,
    updatedAt |->
      <<"u", "p", "d", "a", "t", "e", "d", "A", "t">>,
    kv |->
      <<"k", "v">>,
    list_files |->
      <<"l", "i", "s", "t", "_", "f", "i", "l", "e", "s">>,
    read_file |->
      <<"r", "e", "a", "d", "_", "f", "i", "l", "e">>,
    grep |->
      <<"g", "r", "e", "p">>,
    run_command |->
      <<"r", "u", "n", "_", "c", "o", "m", "m", "a", "n", "d">>,
    write_file |->
      <<"w", "r", "i", "t", "e", "_", "f", "i", "l", "e">>,
    scan_project |->
      <<"s", "c", "a", "n", "_", "p", "r", "o", "j", "e", "c", "t">>,
    symbol_lookup |->
      <<"s", "y", "m", "b", "o", "l", "_", "l", "o", "o", "k", "u", "p">>,
    find_references |->
      <<"f", "i", "n", "d", "_", "r", "e", "f", "e", "r", "e", "n", "c", "e", "s">>,
    dependency_map |->
      <<"d", "e", "p", "e", "n", "d", "e", "n", "c", "y", "_", "m", "a", "p">>,
    memory_set |->
      <<"m", "e", "m", "o", "r", "y", "_", "s", "e", "t">>,
    memory_get |->
      <<"m", "e", "m", "o", "r", "y", "_", "g", "e", "t">>,
    done |->
      <<"d", "o", "n", "e">>,
    need_user |->
      <<"n", "e", "e", "d", "_", "u", "s", "e", "r">>,
    continue |->
      <<"c", "o", "n", "t", "i", "n", "u", "e">>,
    json |->
      <<"j", "s", "o", "n">>,
    true |->
      <<"t", "r", "u", "e">>,
    false |->
      <<"f", "a", "l", "s", "e">>,
    null |->
      <<"n", "u", "l", "l">>,
    undefined |->
      <<"u", "n", "d", "e", "f", "i", "n", "e", "d">>,
    toString |->
      <<"t", "o", "S", "t", "r", "i", "n", "g">>,
    maybe |->
      <<"m", "a", "y", "b", "e">>,
    fly |->
      <<"f", "l", "y">>,
    objectObject |->
      <<"[", "o", "b", "j", "e", "c", "t", " ", "O", "b", "j", "e", "c", "t", "]">>
  ]

Undefined == [t |-> "undefined"]

JNull == [t |-> "null"]

JBool(b) == [t |-> "bool", b |-> b]

JNum(digits) == [t |-> "num", digits |-> digits]

JStr(s) == [t |-> "str", s |-> s]

JArr(items) == [t |-> "arr", items |-> items]

JObj(members) == [t |-> "obj", members |-> members]

SyntaxError == [ok |-> FALSE, value |-> Undefined, next |-> 0]

Parsed(value, next) == [ok |-> TRUE, value |-> value, next |-> next]

\* JSON.parse: the white space before a token
RECURSIVE skipWs(_, _)
skipWs(s, i) ==
  IF i <= Len(s) /\ s[i] \in Whitespace THEN skipWs(s, i + 1) ELSE i

\* JSON.parse: the first index from i on that holds c, or 0
RECURSIVE indexFrom(_, _, _)
indexFrom(s, c, i) ==
  IF i > Len(s) THEN 0
  ELSE IF s[i] = c THEN i
  ELSE indexFrom(s, c, i + 1)

\* JSON.parse: the index after the digits that start at i
RECURSIVE skipDigits(_, _)
skipDigits(s, i) ==
  IF i <= Len(s) /\ s[i] \in Digits THEN skipDigits(s, i + 1) ELSE i

\* JSON.parse: the characters of a string from i on, up to its closing
\* quote; a backslash escapes the character after it
RECURSIVE scanString(_, _, _)
scanString(s, i, acc) ==
  IF i > Len(s) THEN SyntaxError
  ELSE IF s[i] = "\"" THEN Parsed(JStr(acc), i + 1)
  ELSE IF s[i] # "\\" THEN scanString(s, i + 1, Append(acc, s[i]))
  ELSE IF i + 1 > Len(s) THEN SyntaxError
  ELSE IF s[i + 1] \in {"\"", "\\", "/"}
    THEN scanString(s, i + 2, Append(acc, s[i + 1]))
  ELSE IF s[i + 1] = "n" THEN scanString(s, i + 2, Append(acc, "\n"))
  ELSE IF s[i + 1] = "t" THEN scanString(s, i + 2, Append(acc, "\t"))
  ELSE SyntaxError

\* JSON.parse: a string that starts at the quote at i
parseString(s, i) ==
  IF i > Len(s) \/ s[i] # "\"" THEN SyntaxError ELSE scanString(s, i + 1, <<>>)

\* JSON.parse: a number that starts at the digit at i
parseNumber(s, i) ==
  LET j == skipDigits(s, i)
  IN  IF s[i] = "0" /\ j > i + 1
        THEN SyntaxError
        ELSE Parsed(JNum(SubSeq(s, i, j - 1)), j)

\* JSON.parse: true, false or null at i
parseLiteral(s, i, word, value) ==
  IF SubSeq(s, i, Min(Len(s), i + Len(word) - 1)) = word
    THEN Parsed(value, i + Len(word))
    ELSE SyntaxError

RECURSIVE parseValue(_, _)
RECURSIVE parseMembers(_, _, _)
RECURSIVE parseElements(_, _, _)

\* JSON.parse: a value, after white space
parseValue(s, i0) ==
  LET i == skipWs(s, i0)
  IN  IF i > Len(s) THEN SyntaxError
      ELSE CASE s[i] = "{" ->
                  IF skipWs(s, i + 1) <= Len(s) /\ s[skipWs(s, i + 1)] = "}"
                    THEN Parsed(JObj(<<>>), skipWs(s, i + 1) + 1)
                    ELSE parseMembers(s, i + 1, <<>>)
             [] s[i] = "[" ->
                  IF skipWs(s, i + 1) <= Len(s) /\ s[skipWs(s, i + 1)] = "]"
                    THEN Parsed(JArr(<<>>), skipWs(s, i + 1) + 1)
                    ELSE parseElements(s, i + 1, <<>>)
             [] s[i] = "\"" -> parseString(s, i)
             [] s[i] \in Digits -> parseNumber(s, i)
             [] s[i] = "t" -> parseLiteral(s, i, Str.true, JBool(TRUE))
             [] s[i] = "f" -> parseLiteral(s, i, Str.false, JBool(FALSE))
             [] s[i] = "n" -> parseLiteral(s, i, Str.null, JNull)
             [] OTHER -> SyntaxError

\* JSON.parse: the members of an object, from the key at i on
parseMembers(s, i, acc) ==
  LET key == parseString(s, skipWs(s, i))
      colon == skipWs(s, key.next)
      val == parseValue(s, colon + 1)
      after == skipWs(s, val.next)
      members == Append(acc, [key |-> key.value.s, value |-> val.value])
  IN  IF ~key.ok \/ colon > Len(s) \/ s[colon] # ":" THEN SyntaxError
      ELSE IF ~val.ok \/ after > Len(s) THEN SyntaxError
      ELSE IF s[after] = "}" THEN Parsed(JObj(members), after + 1)
      ELSE IF s[after] = "," THEN parseMembers(s, after + 1, members)
      ELSE SyntaxError

\* JSON.parse: the elements of an array, from the value at i on
parseElements(s, i, acc) ==
  LET val == parseValue(s, i)
      after == skipWs(s, val.next)
      items == Append(acc, val.value)
  IN  IF ~val.ok \/ after > Len(s) THEN SyntaxError
      ELSE IF s[after] = "]" THEN Parsed(JArr(items), after + 1)
      ELSE IF s[after] = "," THEN parseElements(s, after + 1, items)
      ELSE SyntaxError

\* JSON.parse(text): a value and nothing but white space after it
jsonParse(text) ==
  LET r == parseValue(text, 1)
  IN  IF r.ok /\ skipWs(text, r.next) > Len(text)
        THEN [ok |-> TRUE, value |-> r.value]
        ELSE [ok |-> FALSE, value |-> Undefined]

\* value.key of JavaScript: the last member of that name, if any
get(value, key) ==
  IF value.t = "obj" /\ \E i \in DOMAIN value.members : value.members[i].key = key
    THEN LET last == CHOOSE i \in DOMAIN value.members :
                       /\ value.members[i].key = key
                       /\ \A j \in DOMAIN value.members :
                            value.members[j].key = key => j <= i
         IN  value.members[last].value
    ELSE Undefined

\* !value is false
truthy(value) ==
  CASE value.t \in {"undefined", "null"} -> FALSE
    [] value.t = "bool" -> value.b
    [] value.t = "num" -> value.digits # <<"0">>
    [] value.t = "str" -> value.s # <<>>
    [] OTHER -> TRUE

\* typeof value === "object"
isObjectType(value) == value.t \in {"null", "arr", "obj"}

\* typeof value === "string"
isString(value) == value.t = "str"

\* Number.isFinite(value)
isFiniteNumber(value) == value.t = "num"

\* Array.isArray(value)
isArray(value) == value.t = "arr"

Threw == [threw |-> TRUE, s |-> <<>>]

Returned(s) == [threw |-> FALSE, s |-> s]

RECURSIVE StringOf(_)
RECURSIVE join(_, _)

\* String(value).  An object is converted by its toString and then its
\* valueOf; a member of a parsed object is never a function, so an own
\* member toString leaves Object.prototype.valueOf, which returns the
\* object, and the conversion ends with a TypeError.
StringOf(value) ==
  CASE value.t = "str" -> Returned(value.s)
    [] value.t = "num" -> Returned(value.digits)
    [] value.t = "bool" ->
         Returned(IF value.b THEN Str.true ELSE Str.false)
    [] value.t = "null" -> Returned(Str.null)
    [] value.t = "undefined" -> Returned(Str.undefined)
    [] value.t = "arr" -> join(value.items, 1)
    [] OTHER ->
         IF get(value, Str.toString) # Undefined THEN Threw
         ELSE Returned(Str.objectObject)

\* Array.prototype.join of the items from i on
join(items, i) ==
  IF i > Len(items) THEN Returned(<<>>)
  ELSE LET item == IF items[i].t \in {"null", "undefined"}
                     THEN Returned(<<>>)
                     ELSE StringOf(items[i])
           rest == join(items, i + 1)
       IN  IF item.threw \/ rest.threw THEN Threw
           ELSE IF i = Len(items) THEN item
           ELSE Returned(item.s \o <<",">> \o rest.s)

\* Array.prototype.slice(0, n)
slice(items, n) == SubSeq(items, 1, Min(n, Len(items)))

\* first index of needle in s from i on, or 0
RECURSIVE indexOfFrom(_, _, _)
indexOfFrom(s, needle, i) ==
  IF i + Len(needle) - 1 > Len(s) THEN 0
  ELSE IF SubSeq(s, i, i + Len(needle) - 1) = needle THEN i
  ELSE indexOfFrom(s, needle, i + 1)

\* the grave accent, written as an apostrophe
Backtick == "'"

Fence == <<Backtick, Backtick, Backtick>>

\* extractJson, line 15: the match of the fence expression (an opening fence,
\* json or not, white space, the group up to the next fence) at the
\* opening fence at p, if any.  No choice but the greedy one for json and
\* for the white space can find a closing fence the greedy one misses.
fencedAt(s, p) ==
  LET afterFence == p + 3
      afterJson ==
        IF toLowerCase(SubSeq(s, afterFence, Min(Len(s), afterFence + 3)))
             = Str.json
          THEN afterFence + 4 ELSE afterFence
      start == skipWs(s, afterJson)
      close == indexOfFrom(s, Fence, start)
  IN  [ matched |-> close # 0,
        group |-> IF close # 0 THEN SubSeq(s, start, close - 1) ELSE <<>> ]

\* extractJson, line 15: the first match of the expression from p on
RECURSIVE fencedFrom(_, _)
fencedFrom(s, p0) ==
  LET p == indexOfFrom(s, Fence, p0)
  IN  IF p = 0 THEN [matched |-> FALSE, group |-> <<>>]
      ELSE IF fencedAt(s, p).matched THEN fencedAt(s, p)
      ELSE fencedFrom(s, p + 1)

\* String.prototype.lastIndexOf of one character, or 0
RECURSIVE lastIndexOf(_, _, _)
lastIndexOf(s, c, i) ==
  IF i < 1 THEN 0
  ELSE IF s[i] = c THEN i
  ELSE lastIndexOf(s, c, i - 1)

\* responseParser.ts, lines 9-27
extractJson(input) ==
  LET trimmed == trim(input)
      fenced == fencedFrom(trimmed, 1)
      firstBrace == indexFrom(trimmed, "{", 1)
      lastBrace == lastIndexOf(trimmed, "}", Len(trimmed))
  IN  IF startsWith(trimmed, <<"{">>) /\ endsWith(trimmed, <<"}">>)
        THEN trimmed
      ELSE IF fenced.matched /\ fenced.group # <<>>
        THEN trim(fenced.group)
      ELSE IF firstBrace >= 1 /\ lastBrace > firstBrace
        THEN SubSeq(trimmed, firstBrace, lastBrace)
      ELSE trimmed

\* responseParser.ts, lines 29-34
normalizeStatus(value) ==
  IF value.t # "str" THEN "continue"
  ELSE CASE value.s = Str.done -> "done"
         [] value.s = Str.need_user -> "need_user"
         [] OTHER -> "continue"

\* .map((item) => String(item)).map((item) => item.trim())
\* .filter((item) => item.length > 0), and whether String threw
RECURSIVE trimmedStrings(_, _)
trimmedStrings(items, i) ==
  IF i > Len(items) THEN [threw |-> FALSE, list |-> <<>>]
  ELSE LET item == StringOf(items[i])
           rest == trimmedStrings(items, i + 1)
       IN  IF item.threw \/ rest.threw
             THEN [threw |-> TRUE, list |-> <<>>]
           ELSE IF trim(item.s) = <<>> THEN rest
           ELSE [threw |-> FALSE, list |-> <<trim(item.s)>> \o rest.list]

\* responseParser.ts, lines 36-45
normalizePlan(value) ==
  IF ~isArray(value) THEN [threw |-> FALSE, list |-> <<>>]
  ELSE LET strings == trimmedStrings(value.items, 1)
       IN  [threw |-> strings.threw, list |-> slice(strings.list, 12)]

\* normalizeVerify, lines 53-64: the commands of the items from i on
RECURSIVE verifyCommandsOf(_, _)
verifyCommandsOf(items, i) ==
  IF i > Len(items) THEN <<>>
  ELSE LET item == items[i]
           commandValue == get(item, Str.command)
           rest == verifyCommandsOf(items, i + 1)
       IN  IF isString(item) /\ trim(item.s) # <<>>
             THEN <<[command |-> trim(item.s)]>> \o rest
           ELSE IF /\ truthy(item)
                   /\ item.t = "obj"
                   /\ isString(commandValue)
                   /\ trim(commandValue.s) # <<>>
             THEN <<[command |-> trim(commandValue.s)]>> \o rest
           ELSE rest

\* responseParser.ts, lines 47-67
normalizeVerify(value) ==
  IF ~isArray(value) THEN <<>> ELSE slice(verifyCommandsOf(value.items, 1), 8)

\* the texts of the responses for an input that cannot be used, lines 308-326
Messages ==
  [
    invalidJsonMessage |->
      <<"I", " ", "r", "e", "t", "u", "r", "n", "e", "d", " ", "a", "n",
        " ", "i", "n", "v", "a", "l", "i", "d", " ", "J", "S", "O", "N",
        " ", "r", "e", "s", "p", "o", "n", "s", "e", " ", "a", "n", "d",
        " ", "n", "e", "e", "d", " ", "a", " ", "r", "e", "t", "r", "y",
        ".">>,
    invalidJsonQuestion |->
      <<"P", "l", "e", "a", "s", "e", " ", "a", "s", "k", " ", "m", "e",
        " ", "t", "o", " ", "r", "e", "t", "r", "y", ".", " ", "I", " ",
        "w", "i", "l", "l", " ", "r", "e", "s", "p", "o", "n", "d", " ",
        "w", "i", "t", "h", " ", "s", "t", "r", "i", "c", "t", " ", "J",
        "S", "O", "N", ".">>,
    invalidShapeMessage |->
      <<"I", " ", "r", "e", "t", "u", "r", "n", "e", "d", " ", "a", "n",
        " ", "i", "n", "v", "a", "l", "i", "d", " ", "r", "e", "s", "p",
        "o", "n", "s", "e", " ", "s", "h", "a", "p", "e", " ", "a", "n",
        "d", " ", "n", "e", "e", "d", " ", "a", " ", "r", "e", "t", "r",
        "y", ".">>,
    invalidShapeQuestion |->
      <<"P", "l", "e", "a", "s", "e", " ", "a", "s", "k", " ", "m", "e",
        " ", "t", "o", " ", "r", "e", "t", "r", "y", " ", "w", "i", "t",
        "h", " ", "s", "t", "r", "i", "c", "t", " ", "J", "S", "O", "N",
        " ", "o", "n", "l", "y", ".">>
  ]

\* normalizeActions, lines 77-249: one item of the array; keep tells
\* whether an action is pushed, threw whether String(item.tool) threw
normalizeAction(item) ==
  LET dropped == [threw |-> FALSE, keep |-> FALSE, action |-> Undefined]
      pushed(action) == [threw |-> FALSE, keep |-> TRUE, action |-> action]
      stringOr(v) == IF isString(v) THEN v ELSE Undefined
      booleanOr(v) == IF v.t = "bool" THEN v ELSE Undefined
      numberOr(v) == IF isFiniteNumber(v) THEN v ELSE Undefined
      filled(v) == isString(v) /\ trim(v.s) # <<>>
      tool == get(item, Str.tool)
      name == StringOf(IF tool.t \in {"null", "undefined"}
                         THEN JStr(<<>>) ELSE tool)
      toolName == trim(name.s)
  IN  IF ~truthy(item) \/ ~isObjectType(item) THEN dropped
      ELSE IF name.threw
        THEN [threw |-> TRUE, keep |-> FALSE, action |-> Undefined]
      ELSE CASE toolName = Str.list_files ->
                  pushed([ tool |-> "list_files",
                           path |-> stringOr(get(item, Str.path)),
                           recursive |-> booleanOr(get(item, Str.recursive)),
                           depth |-> numberOr(get(item, Str.depth)),
                           maxEntries |->
                             numberOr(get(item, Str.maxEntries)) ])
             [] toolName = Str.read_file ->
                  IF ~filled(get(item, Str.path)) THEN dropped
                  ELSE pushed([ tool |-> "read_file",
                                path |-> get(item, Str.path),
                                startLine |->
                                  numberOr(get(item, Str.startLine)),
                                endLine |->
                                  numberOr(get(item, Str.endLine)) ])
             [] toolName = Str.grep ->
                  IF ~filled(get(item, Str.pattern)) THEN dropped
                  ELSE pushed([ tool |-> "grep",
                                pattern |-> get(item, Str.pattern),
                                glob |-> stringOr(get(item, Str.glob)),
                                maxMatches |->
                                  numberOr(get(item, Str.maxMatches)) ])
             [] toolName = Str.run_command ->
                  IF ~filled(get(item, Str.command)) THEN dropped
                  ELSE pushed([ tool |-> "run_command",
                                command |-> get(item, Str.command) ])
             [] toolName = Str.write_file ->
                  IF ~filled(get(item, Str.path)) THEN dropped
                  ELSE IF ~isString(get(item, Str.content)) THEN dropped
                  ELSE pushed([ tool |-> "write_file",
                                path |-> get(item, Str.path),
                                content |-> get(item, Str.content) ])
             [] toolName = Str.scan_project ->
                  pushed([ tool |-> "scan_project",
                           refresh |-> booleanOr(get(item, Str.refresh)),
                           maxFiles |-> numberOr(get(item, Str.maxFiles)) ])
             [] toolName = Str.symbol_lookup ->
                  IF ~filled(get(item, Str.query)) THEN dropped
                  ELSE pushed([ tool |-> "symbol_lookup",
                                query |-> get(item, Str.query),
                                language |->
                                  stringOr(get(item, Str.language)),
                                limit |-> numberOr(get(item, Str.limit)) ])
             [] toolName = Str.find_references ->
                  IF ~filled(get(item, Str.symbol)) THEN dropped
                  ELSE pushed([ tool |-> "find_references",
                                symbol |-> get(item, Str.symbol),
                                language |->
                                  stringOr(get(item, Str.language)),
                                limit |-> numberOr(get(item, Str.limit)) ])
             [] toolName = Str.dependency_map ->
                  pushed([tool |-> "dependency_map"])
             [] toolName = Str.memory_set ->
                  IF ~filled(get(item, Str.key)) THEN dropped
                  ELSE IF ~isString(get(item, Str.value)) THEN dropped
                  ELSE pushed([ tool |-> "memory_set",
                                key |-> get(item, Str.key),
                                value |-> get(item, Str.value) ])
             [] toolName = Str.memory_get ->
                  IF ~filled(get(item, Str.key)) THEN dropped
                  ELSE pushed([ tool |-> "memory_get",
                                key |-> get(item, Str.key) ])
             [] OTHER -> dropped

\* normalizeActions, lines 76-250: the actions of the items from i on
RECURSIVE actionsOf(_, _)
actionsOf(items, i) ==
  IF i > Len(items) THEN [threw |-> FALSE, list |-> <<>>]
  ELSE LET item == normalizeAction(items[i])
           rest == actionsOf(items, i + 1)
       IN  IF item.threw THEN [threw |-> TRUE, list |-> <<>>]
           ELSE IF rest.threw THEN rest
           ELSE IF item.keep
             THEN [threw |-> FALSE, list |-> <<item.action>> \o rest.list]
           ELSE rest

\* responseParser.ts, lines 69-253
normalizeActions(value) ==
  IF ~isArray(value) THEN [threw |-> FALSE, list |-> <<>>]
  ELSE LET actions == actionsOf(value.items, 1)
       IN  [threw |-> actions.threw, list |-> slice(actions.list, 6)]

\* normalizeMemoryUpdates, lines 263-282: one list of notes, absent when
\* the member is no array
notesOf(obj, key) ==
  IF ~isArray(get(obj, key))
    THEN [threw |-> FALSE, present |-> FALSE, list |-> <<>>]
    ELSE LET strings == trimmedStrings(get(obj, key).items, 1)
         IN  [ threw |-> strings.threw,
               present |-> TRUE,
               list |-> slice(strings.list, 30) ]

\* normalizeMemoryUpdates, lines 284-291: the keys of obj.kv that are kept
\* (a member of an array has its index for key, which is never blank)
kvKeysOf(kv) ==
  IF ~truthy(kv) \/ ~isObjectType(kv) THEN {}
  ELSE IF kv.t = "arr"
    THEN {i \in DOMAIN kv.items : isString(kv.items[i])}
  ELSE { kv.members[i].key : i \in
           { j \in DOMAIN kv.members :
               /\ trim(kv.members[j].key) # <<>>
               /\ isString(get(kv, kv.members[j].key)) } }

\* responseParser.ts, lines 255-299
normalizeMemoryUpdates(value) ==
  IF ~truthy(value) \/ ~isObjectType(value)
    THEN [threw |-> FALSE, value |-> Undefined]
    ELSE LET projectRules == notesOf(value, Str.projectRules)
             architectureNotes == notesOf(value, Str.architectureNotes)
             commonCommands == notesOf(value, Str.commonCommands)
             kv == kvKeysOf(get(value, Str.kv))
             hasAny ==
               \/ projectRules.list # <<>>
               \/ architectureNotes.list # <<>>
               \/ commonCommands.list # <<>>
               \/ kv # {}
         IN  IF \/ projectRules.threw
                \/ architectureNotes.threw
                \/ commonCommands.threw
               THEN [threw |-> TRUE, value |-> Undefined]
             ELSE IF ~hasAny THEN [threw |-> FALSE, value |-> Undefined]
             ELSE [ threw |-> FALSE,
                    value |->
                      [ t |-> "updates",
                        projectRules |-> projectRules.list,
                        architectureNotes |-> architectureNotes.list,
                        commonCommands |-> commonCommands.list,
                        kv |-> kv ] ]

\* a TypeError leaves parseAgentModelResponse
ResponseThrown == [returned |-> TRUE, threw |-> TRUE]

\* parseAgentModelResponse, line 338
questionOf(obj) ==
  IF isString(get(obj, Str.question)) THEN get(obj, Str.question)
  ELSE Undefined

\* responseParser.ts, lines 301-341
parseAgentModelResponse(text) ==
  LET jsonCandidate == extractJson(text)
      parsed == jsonParse(jsonCandidate)
      obj == parsed.value
      plan == normalizePlan(get(obj, Str.plan))
      actions == normalizeActions(get(obj, Str.actions))
      memory == normalizeMemoryUpdates(get(obj, Str.memory_updates))
  IN  IF ~parsed.ok
        THEN [ returned |-> TRUE,
               threw |-> FALSE,
               status |-> "need_user",
               assistant_message |-> Messages.invalidJsonMessage,
               plan |-> <<>>,
               actions |-> <<>>,
               verify |-> <<>>,
               question |-> JStr(Messages.invalidJsonQuestion),
               memory_updates |-> Undefined ]
      ELSE IF ~truthy(obj) \/ ~isObjectType(obj)
        THEN [ returned |-> TRUE,
               threw |-> FALSE,
               status |-> "need_user",
               assistant_message |-> Messages.invalidShapeMessage,
               plan |-> <<>>,
               actions |-> <<>>,
               verify |-> <<>>,
               question |-> JStr(Messages.invalidShapeQuestion),
               memory_updates |-> Undefined ]
      ELSE IF plan.threw \/ actions.threw \/ memory.threw
        THEN ResponseThrown
      ELSE [ returned |-> TRUE,
             threw |-> FALSE,
             status |-> normalizeStatus(get(obj, Str.status)),
             assistant_message |->
               IF isString(get(obj, Str.assistant_message))
                 THEN get(obj, Str.assistant_message).s ELSE <<>>,
             plan |-> plan.list,
             actions |-> actions.list,
             verify |-> normalizeVerify(get(obj, Str.verify)),
             question |-> questionOf(obj),
             memory_updates |-> memory.value ]

(***************************************************************************)
(* The texts given to the parser: documents of the schema that            *)
(* buildSystemPrompt asks for, with members left out, misspelled or of     *)
(* another type, lists of up to MaxItems items, and the same documents in  *)
(* a fence, inside prose, cut short or replaced by another value.          *)
(***************************************************************************)
quote(s) == <<"\"">> \o s \o <<"\"">>

RECURSIVE commaJoin(_)
commaJoin(texts) ==
  IF texts = <<>> THEN <<>>
  ELSE IF Len(texts) = 1 THEN texts[1]
  ELSE texts[1] \o <<",">> \o commaJoin(Tail(texts))

objectText(members) == <<"{">> \o commaJoin(members) \o <<"}">>

arrayText(items) == <<"[">> \o commaJoin(items) \o <<"]">>

member(key, valueText) == quote(key) \o <<":">> \o valueText

copies(item, n) == [i \in 1..n |-> item]

\* an object that has a member toString
ShadowText == objectText(<<member(Str.toString, <<"1">>)>>)

\* the values a member or an item may hold
ValueTexts ==
  { quote(<<"a">>), quote(<<>>), quote(<<" ">>), quote(<<" ", "a", " ">>),
    <<"1">>, <<"0">>, Str.null, Str.true, Str.false,
    objectText(<<>>), arrayText(<<>>), arrayText(<<quote(<<"a">>)>>),
    objectText(<<member(Str.command, quote(<<"a">>))>>),
    objectText(<<member(Str.command, quote(<<" ">>))>>),
    objectText(<<member(Str.command, <<"1">>)>>),
    ShadowText, arrayText(<<ShadowText>>) }

ListLengths == {0, 1, 6, 7, 8, 9, 12, MaxItems}

\* one action: a tool and the text of its other members
actionText(tool, members) ==
  objectText(<<member(Str.tool, tool)>> \o members)

ActionTexts ==
  LET a == quote(<<"a">>)
      blank == quote(<<" ">>)
      one == <<"1">>
      m(key, v) == <<member(key, v)>>
      simple ==
        { actionText(quote(tool), members) :
            tool \in { Str.list_files, Str.read_file, Str.grep,
                       Str.run_command, Str.write_file, Str.scan_project,
                       Str.symbol_lookup, Str.find_references,
                       Str.dependency_map, Str.memory_set, Str.memory_get,
                       Str.fly, <<" ", "g", "r", "e", "p", " ">> },
            members \in
              { <<>>,
                m(Str.path, a) \o m(Str.content, a),
                m(Str.path, a) \o m(Str.content, one),
                m(Str.path, blank) \o m(Str.content, a),
                m(Str.path, one) \o m(Str.recursive, a) \o m(Str.depth, a),
                m(Str.path, a) \o m(Str.recursive, Str.true)
                  \o m(Str.depth, one) \o m(Str.maxEntries, one)
                  \o m(Str.startLine, one) \o m(Str.endLine, a),
                m(Str.pattern, a) \o m(Str.glob, one)
                  \o m(Str.maxMatches, one),
                m(Str.pattern, blank),
                m(Str.command, a),
                m(Str.command, blank),
                m(Str.refresh, Str.true) \o m(Str.maxFiles, one),
                m(Str.query, a) \o m(Str.symbol, a) \o m(Str.language, a)
                  \o m(Str.limit, one),
                m(Str.query, one) \o m(Str.symbol, Str.null),
                m(Str.key, a) \o m(Str.value, a),
                m(Str.key, a) \o m(Str.value, one),
                m(Str.key, blank) \o m(Str.value, a) } }
      odd ==
        { actionText(tool, m(Str.pattern, a)) :
            tool \in { one, Str.null, arrayText(<<quote(Str.grep)>>),
                       ShadowText, arrayText(<<ShadowText>>) } }
  IN  simple \cup odd \cup ValueTexts

\* the documents: one member set at a time, and all members at once
Documents ==
  LET a == quote(<<"a">>)
      statuses ==
        { quote(Str.continue), quote(Str.done), quote(Str.need_user),
          quote(Str.maybe), <<"1">>, Str.null }
      questions == {<<>>} \cup
        { <<member(Str.question, v)>> :
            v \in {a, quote(<<>>), quote(<<" ">>), <<"1">>, Str.null} }
      run == actionText(quote(Str.run_command), <<member(Str.command, a)>>)
      lists ==
        { <<member(key, arrayText(copies(item, n)))>> :
            key \in {Str.plan, Str.verify, Str.actions},
            item \in {a, run},
            n \in ListLengths }
      plans ==
        { <<member(key, arrayText(<<v>>))>> :
            key \in {Str.plan, Str.verify}, v \in ValueTexts }
        \cup { <<member(key, v)>> :
                 key \in {Str.plan, Str.verify, Str.actions},
                 v \in ValueTexts }
      actions ==
        { <<member(Str.actions, arrayText(<<v>>))>> : v \in ActionTexts }
        \cup { <<member(Str.actions, arrayText(<<v, run>>))>> :
                 v \in ValueTexts }
      memories ==
        { <<member(Str.memory_updates, objectText(<<member(key, v)>>))>> :
            key \in {Str.projectRules, Str.architectureNotes,
                     Str.commonCommands, Str.kv},
            v \in { arrayText(<<a>>), arrayText(<<ShadowText>>),
                    arrayText(<<quote(<<" ">>)>>), a,
                    objectText(<<member(<<"a">>, a)>>),
                    objectText(<<member(<<" ">>, a)>>),
                    objectText(<<member(<<"a">>, <<"1">>)>>) } }
        \cup { <<member(Str.memory_updates, v)>> : v \in ValueTexts }
      twice ==
        { <<member(Str.status, quote(Str.done)),
            member(Str.status, quote(Str.need_user))>>,
          <<member(Str.status, quote(Str.need_user)),
            member(Str.question, a),
            member(Str.question, <<"1">>)>> }
      all ==
        { <<member(Str.status, st),
            member(Str.assistant_message, a),
            member(Str.plan, arrayText(<<a>>)),
            member(Str.actions, arrayText(<<run>>)),
            member(Str.verify, arrayText(<<a>>))>> \o q :
            st \in statuses, q \in questions }
  IN  { objectText(<<member(Str.status, st)>> \o q) :
          st \in statuses, q \in questions }
      \cup { objectText(ms) :
               ms \in lists \cup plans \cup actions \cup memories
                        \cup twice \cup all \cup {<<>>} }

\* a document as the model may write it around
Wrappings(doc) ==
  LET nl == <<"\n">>
      prose == <<"o", "k", " ">>
  IN  { doc,
        <<" ", "\n">> \o doc \o <<"\n">>,
        Fence \o Str.json \o nl \o doc \o nl \o Fence,
        Fence \o <<"J", "S", "O", "N">> \o nl \o doc \o nl \o Fence,
        Fence \o nl \o doc \o nl \o Fence,
        prose \o Fence \o doc \o Fence \o prose,
        prose \o Fence \o Str.json \o nl \o doc,
        prose \o doc \o prose,
        prose \o doc \o <<" ", "{", "}">>,
        Fence \o Fence \o doc,
        SubSeq(doc, 1, Len(doc) - 1),
        doc \o doc,
        arrayText(<<doc>>) }

RawTexts ==
  Documents
  \cup UNION
    { Wrappings(objectText(<<member(Str.status, quote(st))>> \o q)) :
        st \in {Str.need_user, Str.done},
        q \in { <<>>, <<member(Str.question, quote(<<"a">>))>> } }
  \cup ValueTexts
  \cup { <<>>, <<" ">>, <<"{">>, <<"}", "{">>, Fence, <<"0", "1">>,
    <<"g", "a", "r", "b", "a", "g", "e", " ", "n", "o", "t", " ", "j", "s",
      "o", "n">> }

(***************************************************************************)
(* The parser on its own: parseAgentModelResponse for every text of        *)
(* RawTexts.                                                               *)
(***************************************************************************)
\* the agent and the sandbox, not run
AtRest ==
  /\ pathIn = NoPath
  /\ pathOut = NoResolve
  /\ toolOut = NoTool
  /\ modelCalls = 0
  /\ rollbackPrompts = 0
  /\ restoredFiles = <<>>
  /\ lastVerifyFailed = FALSE
  /\ repairRounds = 0
  /\ policy = DEFAULT_POLICY
  /\ config = DefaultConfig
  /\ disk = EmptyDisk
  /\ disk0 = EmptyDisk
  /\ changeTracker = NewChangeTracker
  /\ loop = 0
  /\ status = "none"
  /\ pending = <<>>
  /\ verify = <<>>
  /\ verifyCommands = <<>>
  /\ verifyIdx = 0
  /\ toolResults = <<>>
  /\ loopHadWrites = FALSE
  /\ loopVerifyFailed = FALSE
  /\ hadVerifyFailures = FALSE
  /\ consecutiveVerifyFailures = 0
  /\ completed = FALSE
  /\ maxIterationReached = FALSE
  /\ abortedByError = FALSE
  /\ stoppedEarly = FALSE
  /\ conversation = <<>>
  /\ changedByWrite = {}
  /\ auditOut = <<>>
  /\ auditFailed = {}
  /\ uiOut = <<>>
  /\ spawnOut = {}
  /\ fsOut = {}

InitParse ==
  /\ rawText \in RawTexts
  /\ response = NoResponse
  /\ ScannerNew
  /\ OtherUnitsNew
  /\ family = "parser"
  /\ pc = "parse"
  /\ AtRest

\* parseAgentModelResponse(rawText)
Parse ==
  /\ pc = "parse"
  /\ response' = parseAgentModelResponse(rawText)
  /\ pc' = "parsed"
  /\ UNCHANGED << family, policy, config, disk, disk0, rawText, scannerVars,
                  otherUnitVars, modelCalls,
                  historyVars, changeTracker, loop, responseVars, pending,
                  verifyVars, toolResults, loopHadWrites, flagVars,
                  conversation, changedByWrite, auditOut, auditFailed, uiOut, spawnOut,
                  fsOut, pathVars >>

NextParse == Parse

SpecParse == InitParse /\ [][NextParse]_vars

\* C18 (parser totality): for every text, parseAgentModelResponse returns
\* without throwing a response whose status is continue, done or need_user,
\* with at most 6 actions, 8 verify commands and 12 plan steps, each action
\* of one of the 11 tools with its required fields of the right type.
ParserTotality ==
  response.returned =>
    /\ ~response.threw
    /\ response.status \in {"continue", "done", "need_user"}
    /\ Len(response.actions) <= 6
    /\ Len(response.verify) <= 8
    /\ Len(response.plan) <= 12
    /\ \A i \in DOMAIN response.actions :
         LET action == response.actions[i]
             filled(v) == v.t = "str" /\ trim(v.s) # <<>>
             optional(v, type) == v.t \in {"undefined", type}
         IN  CASE action.tool = "list_files" ->
                    /\ optional(action.path, "str")
                    /\ optional(action.recursive, "bool")
                    /\ optional(action.depth, "num")
                    /\ optional(action.maxEntries, "num")
               [] action.tool = "read_file" ->
                    /\ filled(action.path)
                    /\ optional(action.startLine, "num")
                    /\ optional(action.endLine, "num")
               [] action.tool = "grep" ->
                    /\ filled(action.pattern)
                    /\ optional(action.glob, "str")
                    /\ optional(action.maxMatches, "num")
               [] action.tool = "run_command" -> filled(action.command)
               [] action.tool = "write_file" ->
                    filled(action.path) /\ action.content.t = "str"
               [] action.tool = "scan_project" ->
                    /\ optional(action.refresh, "bool")
                    /\ optional(action.maxFiles, "num")
               [] action.tool = "symbol_lookup" ->
                    /\ filled(action.query)
                    /\ optional(action.language, "str")
                    /\ optional(action.limit, "num")
               [] action.tool = "find_references" ->
                    /\ filled(action.symbol)
                    /\ optional(action.language, "str")
                    /\ optional(action.limit, "num")
               [] action.tool = "dependency_map" -> TRUE
               [] action.tool = "memory_set" ->
                    filled(action.key) /\ action.value.t = "str"
               [] action.tool = "memory_get" -> filled(action.key)
               [] OTHER -> FALSE

\* C19 (need_user implies a question): a response of
\* parseAgentModelResponse whose status is need_user has a question that is
\* a string and is not empty.
NeedUserHasQuestion ==
  (response.returned /\ ~response.threw /\ response.status = "need_user") =>
    (response.question.t = "str" /\ response.question.s # <<>>)

(***************************************************************************)
(* The project scanner on its own: calls of ProjectScanner.scan that       *)
(* interleave at their awaits.  A build is a call of buildIndex; its       *)
(* promise is pending, fulfilled with the index of that build, or          *)
(* rejected.  A call of scan is idle (not made), joined (it returned the   *)
(* promise in flight), awaitBuild, awaitPersist, returned or threw.        *)
(***************************************************************************)
ScanCallers == 1..MaxCallers

\* the build that is executing, 0 if none
pendingBuild ==
  IF \E b \in DOMAIN builds : builds[b] = "pending"
    THEN CHOOSE b \in DOMAIN builds : builds[b] = "pending"
    ELSE 0

\* scan, line 489: if (!options.refresh && this.cachedIndex)
servedFromCache(refresh, cached) == ~refresh /\ cached # 0

\* scan, line 493: if (this.inFlightScan)
joinsInFlight(inFlight) == inFlight # 0

\* what a call of scan leaves alone
scanRest ==
  << family, policy, config, disk, disk0, rawText, response, otherUnitVars,
     modelCalls, historyVars, changeTracker, pc, loop, responseVars, pending,
     verifyVars, toolResults, loopHadWrites, flagVars, conversation,
     changedByWrite, auditOut, auditFailed, uiOut, spawnOut, fsOut, pathVars >>

\* scan, lines 488-499: a call, up to its return or its first await
Scan(c) ==
  /\ pc = "scan"
  /\ c = Len(callers) + 1
  /\ \E refresh \in BOOLEAN :
       LET call == [NoCall EXCEPT !.refresh = refresh,
                                  !.arrived = pendingBuild,
                                  !.started = Len(builds),
                                  !.cached = cachedIndex]
       IN  IF servedFromCache(refresh, cachedIndex)
             THEN /\ callers' = Append(callers,
                       [call EXCEPT !.pc = "returned",
                                    !.result = cachedIndex])
                  /\ UNCHANGED <<inFlightScan, builds>>
           ELSE IF joinsInFlight(inFlightScan)
             THEN /\ callers' = Append(callers,
                       [call EXCEPT !.pc = "joined",
                                    !.build = inFlightScan])
                  /\ UNCHANGED <<inFlightScan, builds>>
           ELSE /\ Len(builds) < MaxBuilds
                /\ builds' = Append(builds, "pending")
                /\ inFlightScan' = Len(builds) + 1
                /\ callers' = Append(callers,
                     [call EXCEPT !.pc = "awaitBuild",
                                  !.build = Len(builds) + 1])
  /\ UNCHANGED <<cachedIndex, scanRest>>

\* buildIndex, lines 557-643: the build ends, with an index or an error
BuildSettles(b) ==
  /\ pc = "scan"
  /\ b \in DOMAIN builds
  /\ builds[b] = "pending"
  /\ \E outcome \in {"fulfilled", "rejected"} :
       builds' = [builds EXCEPT ![b] = outcome]
  /\ UNCHANGED <<cachedIndex, inFlightScan, callers, scanRest>>

\* scan, lines 499-505: the call that started the build goes on after it
ScanAfterBuild(c) ==
  /\ pc = "scan"
  /\ c \in DOMAIN callers
  /\ callers[c].pc = "awaitBuild"
  /\ builds[callers[c].build] # "pending"
  /\ IF builds[callers[c].build] = "fulfilled"
       THEN /\ cachedIndex' = callers[c].build
            /\ callers' = [callers EXCEPT ![c].pc = "awaitPersist"]
            /\ UNCHANGED inFlightScan
       ELSE /\ inFlightScan' = 0
            /\ callers' = [callers EXCEPT ![c].pc = "threw"]
            /\ UNCHANGED cachedIndex
  /\ UNCHANGED <<builds, scanRest>>

\* scan, lines 501-505: persistIndex ends, with or without an error
ScanAfterPersist(c) ==
  /\ pc = "scan"
  /\ c \in DOMAIN callers
  /\ callers[c].pc = "awaitPersist"
  /\ inFlightScan' = 0
  /\ \E persisted \in BOOLEAN :
       callers' =
         IF persisted
           THEN [callers EXCEPT ![c].pc = "returned",
                                ![c].result = callers[c].build]
           ELSE [callers EXCEPT ![c].pc = "threw"]
  /\ UNCHANGED <<cachedIndex, builds, scanRest>>

\* scan, line 494: a call that returned the promise in flight settles
ScanJoinedSettles(c) ==
  /\ pc = "scan"
  /\ c \in DOMAIN callers
  /\ callers[c].pc = "joined"
  /\ builds[callers[c].build] # "pending"
  /\ callers' =
       IF builds[callers[c].build] = "fulfilled"
         THEN [callers EXCEPT ![c].pc = "returned",
                              ![c].result = callers[c].build]
         ELSE [callers EXCEPT ![c].pc = "threw"]
  /\ UNCHANGED <<cachedIndex, inFlightScan, builds, scanRest>>

InitScan ==
  /\ ScannerNew
  /\ OtherUnitsNew
  /\ rawText = NoText
  /\ response = NoResponse
  /\ family = "scanner"
  /\ pc = "scan"
  /\ AtRest

NextScan ==
  \/ \E c \in ScanCallers : Scan(c)
  \/ \E b \in 1..MaxBuilds : BuildSettles(b)
  \/ \E c \in ScanCallers : ScanAfterBuild(c)
  \/ \E c \in ScanCallers : ScanAfterPersist(c)
  \/ \E c \in ScanCallers : ScanJoinedSettles(c)

SpecScan == InitScan /\ [][NextScan]_vars

\* C20 (single-flight scan): at most one index build is executing at any
\* time; every call of scan made while a build is in flight that returns
\* returns the index of that build; and the index cached is the one of the
\* last build whose caller went on after it, which is what a call without
\* refresh made when no build is in flight returns.
SingleFlightScan ==
  /\ Cardinality({b \in DOMAIN builds : builds[b] = "pending"}) <= 1
  /\ \A c \in DOMAIN callers :
       (callers[c].pc = "returned" /\ callers[c].arrived # 0) =>
         callers[c].result = callers[c].arrived
  /\ LET done == { callers[c].build : c \in
                     { d \in DOMAIN callers :
                         callers[d].pc \in {"awaitPersist", "returned", "threw"}
                         /\ callers[d].build # 0
                         /\ builds[callers[d].build] = "fulfilled"
                         /\ \A e \in 1..(d - 1) :
                              callers[e].build # callers[d].build } }
     IN  /\ cachedIndex = IF done = {} THEN 0
                          ELSE CHOOSE b \in done : \A o \in done : o <= b
         /\ \A c \in DOMAIN callers :
              ( /\ callers[c].pc = "returned"
                /\ callers[c].arrived = 0
                /\ ~callers[c].refresh
                /\ callers[c].build = 0 ) =>
                callers[c].result # 0

\* C21 (refresh invalidates the cache): every call scan({refresh: true})
\* that returns returns the index of a build started at or after the call,
\* never the index cached before the call nor that of a build already in
\* flight; and after such a call the index that was cached at the call is
\* not returned to any later caller of scan.
RefreshInvalidates ==
  /\ \A c \in DOMAIN callers :
       (callers[c].refresh /\ callers[c].pc = "returned") =>
         callers[c].result > callers[c].started
  /\ \A c \in DOMAIN callers : \A d \in DOMAIN callers :
       ( /\ c < d
         /\ callers[c].refresh
         /\ callers[c].cached # 0
         /\ callers[d].pc = "returned" ) =>
         callers[d].result # callers[c].cached

(***************************************************************************)
(* The Memory Store on its own (responseParser.ts, lines 343-505): one    *)
(* MemoryStore per state directory of StateDirs, the calls of get, set,    *)
(* getSnapshot and applyUpdates made on them, and each await of a call as  *)
(* a step of its own, so that calls interleave as promises do.  An object  *)
(* that holds a kv map is a cell of kvHeap, and a memory refers to its     *)
(* cell: the spread of DEFAULT_MEMORY copies the reference, not the map.   *)
(***************************************************************************)
StateDirs == {1, 2}

DigitSeq == <<"0", "1", "2", "3", "4", "5", "6", "7", "8", "9">>

\* String(n) of a natural number
RECURSIVE decimal(_)
decimal(n) ==
  IF n < 10 THEN <<DigitSeq[n + 1]>>
  ELSE decimal(n \div 10) \o <<DigitSeq[(n % 10) + 1]>>

\* new Date(n).toISOString(), the clock being the number of calls made
isoTime(n) == <<"T">> \o decimal(n)

\* responseParser.ts, lines 358-365: what the loop of uniqNonEmpty pushes for
\* values[lo..hi], by halves; values[i] is pushed when its trimmed text is
\* not empty and was not seen at an earlier index
RECURSIVE pushedOf(_, _, _)
pushedOf(trimmed, lo, hi) ==
  IF lo > hi THEN <<>>
  ELSE IF lo = hi
    THEN IF \/ trimmed[lo] = <<>>
            \/ \E j \in 1..(lo - 1) : trimmed[j] = trimmed[lo]
           THEN <<>>
           ELSE <<trimmed[lo]>>
  ELSE pushedOf(trimmed, lo, (lo + hi) \div 2)
         \o pushedOf(trimmed, ((lo + hi) \div 2) + 1, hi)

\* responseParser.ts, lines 355-367
uniqNonEmpty(values) ==
  LET trimmed == [i \in DOMAIN values |-> trim(values[i])] \o <<>>
  IN  pushedOf(trimmed, 1, Len(values))

\* the cell of DEFAULT_MEMORY.kv
DefaultKv == 1

\* responseParser.ts, lines 369-375
DEFAULT_MEMORY ==
  [ projectRules |-> <<>>, architectureNotes |-> <<>>,
    commonCommands |-> <<>>, kv |-> DefaultKv, updatedAt |-> isoTime(0) ]

\* responseParser.ts, lines 377-384: a MemoryStore after its construction
NewMemoryStore == [loaded |-> FALSE, memory |-> DEFAULT_MEMORY]

\* map[key] = value of an object whose keys keep their order of insertion
kvSet(map, key, value) ==
  IF \E i \in DOMAIN map : map[i].key = key
    THEN [i \in DOMAIN map |->
            IF map[i].key = key THEN [key |-> key, value |-> value]
            ELSE map[i]]
    ELSE Append(map, [key |-> key, value |-> value])

\* map[key], Undefined if there is none
kvGet(map, key) ==
  IF \E i \in DOMAIN map : map[i].key = key
    THEN JStr(map[CHOOSE i \in DOMAIN map : map[i].key = key].value)
    ELSE Undefined

\* items.map((item) => String(item))
stringsOf(items) ==
  IF \E i \in DOMAIN items : StringOf(items[i]).threw
    THEN [threw |-> TRUE, list |-> <<>>]
    ELSE [ threw |-> FALSE,
           list |-> [i \in DOMAIN items |-> StringOf(items[i]).s] \o <<>> ]

\* responseParser.ts, lines 474-482: a list field of the parsed file
listOfFile(parsed, key) ==
  IF isArray(get(parsed, key))
    THEN LET strings == stringsOf(get(parsed, key).items)
         IN  [threw |-> strings.threw, list |-> uniqNonEmpty(strings.list)]
    ELSE [threw |-> FALSE, list |-> <<>>]

\* Object.entries(value) of an object or an array
entriesOf(value) ==
  IF value.t = "arr"
    THEN [i \in DOMAIN value.items |->
            [key |-> decimal(i - 1), value |-> value.items[i]]]
  ELSE IF value.t = "obj" THEN value.members
  ELSE <<>>

\* Object.fromEntries(entries.map(([key, value]) => [key, String(value)]))
RECURSIVE fromEntries(_, _, _)
fromEntries(entries, i, map) ==
  IF i > Len(entries) THEN [threw |-> FALSE, map |-> map]
  ELSE LET value == StringOf(entries[i].value)
       IN  IF value.threw THEN [threw |-> TRUE, map |-> <<>>]
           ELSE fromEntries(entries, i + 1,
                            kvSet(map, entries[i].key, value.s))

\* responseParser.ts, lines 483-487: the kv field of the parsed file
kvOfFile(parsed) ==
  IF truthy(get(parsed, Str.kv)) /\ isObjectType(get(parsed, Str.kv))
    THEN fromEntries(entriesOf(get(parsed, Str.kv)), 1, <<>>)
    ELSE [threw |-> FALSE, map |-> <<>>]

\* a memory.json: none, one that JSON.parse parses to value, or one that
\* it rejects (a text cut short included)
NoFile == [state |-> "absent", value |-> Undefined]

JsonFile(value) == [state |-> "json", value |-> value]

BrokenFile == [state |-> "text", value |-> Undefined]

\* responseParser.ts, lines 469-498: readFromDisk when the read gave file;
\* with the memory, the heap after it
readFromDisk(file, heap, now) ==
  LET parsed == file.value
      projectRules == listOfFile(parsed, Str.projectRules)
      architectureNotes == listOfFile(parsed, Str.architectureNotes)
      commonCommands == listOfFile(parsed, Str.commonCommands)
      kv == kvOfFile(parsed)
      caught ==
        \/ file.state # "json"
        \/ parsed.t = "null"
        \/ projectRules.threw
        \/ architectureNotes.threw
        \/ commonCommands.threw
        \/ kv.threw
  IN  IF caught
        THEN [ memory |-> [DEFAULT_MEMORY EXCEPT !.updatedAt = now],
               heap |-> heap ]
        ELSE [ memory |->
                 [ projectRules |-> projectRules.list,
                   architectureNotes |-> architectureNotes.list,
                   commonCommands |-> commonCommands.list,
                   kv |-> Len(heap) + 1,
                   updatedAt |->
                     IF isString(get(parsed, Str.updatedAt))
                       THEN get(parsed, Str.updatedAt).s
                       ELSE now ],
               heap |-> Append(heap, kv.map) ]

\* Array.prototype.join("\n") of list[lo..hi], by halves
RECURSIVE joinRange(_, _, _)
joinRange(list, lo, hi) ==
  IF lo > hi THEN <<>>
  ELSE IF lo = hi THEN list[lo]
  ELSE joinRange(list, lo, (lo + hi) \div 2) \o <<"\n">>
         \o joinRange(list, ((lo + hi) \div 2) + 1, hi)

\* Array.prototype.join("\n")
joinLines(list) == joinRange(list, 1, Len(list))

\* responseParser.ts, line 428: the list is kept up to its cap
capped(next) == slice(next, MemoryListCap)

\* responseParser.ts, lines 425-431: one list field of applyUpdates
mergeList(current, added, field) ==
  LET next == uniqNonEmpty(current \o added)
  IN  IF added # <<>> /\ joinLines(next) # joinLines(current)
        THEN [ list |-> capped(next),
               changed |->
                 <<field \o <<"(", "+">> \o decimal(Len(added)) \o <<")">> >> ]
        ELSE [list |-> current, changed |-> <<>>]

\* responseParser.ts, lines 449-459: the kv field of applyUpdates, from
\* entries[i] on
RECURSIVE mergeKv(_, _, _, _)
mergeKv(entries, i, map, changed) ==
  IF i > Len(entries) THEN [map |-> map, changed |-> changed]
  ELSE IF ~isString(entries[i].value)
    THEN mergeKv(entries, i + 1, map, changed)
  ELSE IF kvGet(map, entries[i].key) # entries[i].value
    THEN mergeKv(entries, i + 1,
                 kvSet(map, entries[i].key, entries[i].value.s),
                 Append(changed, Str.kv \o <<".">> \o entries[i].key))
  ELSE mergeKv(entries, i + 1, map, changed)

\* an argument of applyUpdates; undefined when not given
Updates(rules, notes, commands, kv) ==
  [ given |-> TRUE, projectRules |-> rules, architectureNotes |-> notes,
    commonCommands |-> commands, kv |-> kv ]

NoUpdates ==
  [ given |-> FALSE, projectRules |-> <<>>, architectureNotes |-> <<>>,
    commonCommands |-> <<>>, kv |-> <<>> ]

\* responseParser.ts, lines 417-467: applyUpdates after ensureLoaded, up to
\* writeToDisk; with the memory, the heap and the tags of what changed
applyUpdates(memory, heap, updates, now) ==
  LET projectRules ==
        mergeList(memory.projectRules, updates.projectRules,
                  Str.projectRules)
      architectureNotes ==
        mergeList(memory.architectureNotes, updates.architectureNotes,
                  Str.architectureNotes)
      commonCommands ==
        mergeList(memory.commonCommands, updates.commonCommands,
                  Str.commonCommands)
      kv == mergeKv(updates.kv, 1, heap[memory.kv], <<>>)
      changed ==
        projectRules.changed \o architectureNotes.changed
          \o commonCommands.changed \o kv.changed
  IN  IF ~updates.given
        THEN [memory |-> memory, heap |-> heap, changed |-> <<>>]
        ELSE [ memory |->
                 [ projectRules |-> projectRules.list,
                   architectureNotes |-> architectureNotes.list,
                   commonCommands |-> commonCommands.list,
                   kv |-> memory.kv,
                   updatedAt |->
                     IF changed # <<>> THEN now ELSE memory.updatedAt ],
               heap |-> [heap EXCEPT ![memory.kv] = kv.map],
               changed |-> changed ]

\* a list of strings as a JSON array
stringArray(list) == JArr([i \in DOMAIN list |-> JStr(list[i])] \o <<>>)

\* JSON.stringify(this.memory, null, 2), as the value JSON.parse gives back
memoryJson(memory, heap) ==
  JObj(<< [key |-> Str.projectRules,
           value |-> stringArray(memory.projectRules)],
          [key |-> Str.architectureNotes,
           value |-> stringArray(memory.architectureNotes)],
          [key |-> Str.commonCommands,
           value |-> stringArray(memory.commonCommands)],
          [key |-> Str.kv,
           value |-> JObj([i \in DOMAIN heap[memory.kv] |->
                             [key |-> heap[memory.kv][i].key,
                              value |-> JStr(heap[memory.kv][i].value)]])],
          [key |-> Str.updatedAt, value |-> JStr(memory.updatedAt)] >>)

\* responseParser.ts, lines 394-403: what getSnapshot returns
Snapshot(memory, heap) ==
  [ projectRules |-> memory.projectRules,
    architectureNotes |-> memory.architectureNotes,
    commonCommands |-> memory.commonCommands,
    kv |-> heap[memory.kv],
    updatedAt |-> memory.updatedAt ]

NoSnapshot ==
  [ projectRules |-> <<>>, architectureNotes |-> <<>>,
    commonCommands |-> <<>>, kv |-> <<>>, updatedAt |-> <<>> ]

\* a call that was not made
NoMemCall ==
  [ store |-> 0, op |-> "none", pc |-> "idle", key |-> NoText,
    value |-> NoText, updates |-> NoUpdates, data |-> Undefined,
    first |-> FALSE, sawAbsent |-> FALSE, snapshot |-> NoSnapshot,
    changed |-> <<>>, got |-> Undefined ]

MemoryKeys == {<<"k">>}

MemoryValues == {<<"v">>, <<"w">>}

\* the arguments given to applyUpdates
UpdateSet ==
  { NoUpdates,
    Updates(<< <<" ", "a">>, <<"a">>, <<" ">>, <<"b">> >>, <<>>, <<>>, <<>>),
    Updates(<<>>, << <<"n">> >>, << <<"c">>, <<"c">> >>,
            << [key |-> <<"k">>, value |-> JStr(<<"w">>)],
               [key |-> <<"n">>, value |-> JNum(<<"1">>)] >>) }

\* a memory.json written by hand: entries to trim, to drop and to convert
SmallMemoryFile ==
  JsonFile(JObj(<<
    [key |-> Str.projectRules,
     value |-> JArr(<<JStr(<<"a", " ">>), JStr(<<"a">>), JNum(<<"1">>),
                      JStr(<<>>)>>)],
    [key |-> Str.kv,
     value |-> JObj(<<[key |-> <<"k">>, value |-> JNum(<<"7">>)]>>)],
    [key |-> Str.updatedAt, value |-> JStr(isoTime(0))] >>))

\* a memory.json with one rule more than the cap
LongMemoryFile ==
  JsonFile(JObj(<<
    [key |-> Str.projectRules,
     value |->
       JArr([i \in 1..(MemoryListCap + 1) |-> JStr(decimal(i))] \o <<>>)] >>))

\* a memory.json whose rules fill the cap
FullMemoryFile ==
  JsonFile(JObj(<<
    [key |-> Str.projectRules,
     value |->
       JArr([i \in 1..MemoryListCap |-> JStr(decimal(i))] \o <<>>)],
    [key |-> Str.updatedAt, value |-> JStr(isoTime(0))] >>))

MemoryFileSet ==
  {NoFile, BrokenFile, SmallMemoryFile, LongMemoryFile, FullMemoryFile}

\* the calls of a store whose writeFile is not done
writersOf(s) ==
  {c \in DOMAIN memCalls : memCalls[c].store = s /\ memCalls[c].pc = "writing"}

\* what a readFile of the memory.json of s may give: the file, or, while a
\* writeFile of it is not done, a text cut short or the text being written
readable(s) ==
  {memoryFiles[s]}
    \cup (IF writersOf(s) = {} THEN {} ELSE {BrokenFile})
    \cup {JsonFile(memCalls[c].data) : c \in writersOf(s)}

\* what a call on a store leaves alone
memoryRest ==
  << family, policy, config, disk, disk0, rawText, response, scannerVars,
     auditVars, shellVars, linkVars, discoveryVars,
     modelCalls, historyVars, changeTracker, pc, loop, responseVars, pending,
     verifyVars, toolResults, loopHadWrites, flagVars, conversation,
     changedByWrite, auditOut, auditFailed, uiOut, spawnOut, fsOut, pathVars >>

\* responseParser.ts, lines 386-392: a call of get, set, getSnapshot or
\* applyUpdates, up to the first await of ensureLoaded
MemoryCall(c) ==
  /\ pc = "memory"
  /\ c = Len(memCalls) + 1
  /\ c <= MaxMemCalls
  /\ \E s \in StateDirs :
     \E op \in {"get", "set", "getSnapshot", "applyUpdates"} :
     \E key \in MemoryKeys : \E value \in MemoryValues :
     \E updates \in UpdateSet :
       /\ op # "set" => value = <<"v">>
       /\ op # "applyUpdates" => updates = NoUpdates
       /\ memCalls' = Append(memCalls,
            [NoMemCall EXCEPT
               !.store = s, !.op = op, !.key = key,
               !.value = IF op = "set" THEN value ELSE NoText,
               !.updates = updates,
               !.first = \A d \in DOMAIN memCalls : memCalls[d].store # s,
               !.pc = IF stores[s].loaded THEN "loaded" ELSE "reading"])
  /\ UNCHANGED <<memoryFiles, kvHeap, stores, memoryRest>>

\* responseParser.ts, lines 390-391 and 469-498: the readFile of readFromDisk
\* ends and ensureLoaded goes on
MemoryReadSettles(c) ==
  /\ pc = "memory"
  /\ c \in DOMAIN memCalls
  /\ memCalls[c].pc = "reading"
  /\ \E file \in readable(memCalls[c].store) :
       LET read == readFromDisk(file, kvHeap, isoTime(Len(memCalls)))
       IN  /\ stores' = [stores EXCEPT ![memCalls[c].store] =
                           [loaded |-> TRUE, memory |-> read.memory]]
           /\ kvHeap' = read.heap
           /\ memCalls' = [memCalls EXCEPT
                             ![c].pc = "loaded",
                             ![c].sawAbsent = (file.state = "absent")]
  /\ UNCHANGED <<memoryFiles, memoryRest>>

\* responseParser.ts, lines 394-467: the call goes on after ensureLoaded, up to
\* its return or to the mkdir of writeToDisk
MemoryProceed(c) ==
  /\ pc = "memory"
  /\ c \in DOMAIN memCalls
  /\ memCalls[c].pc = "loaded"
  /\ LET s == memCalls[c].store
         memory == stores[s].memory
         now == isoTime(Len(memCalls))
         applied == applyUpdates(memory, kvHeap, memCalls[c].updates, now)
     IN  CASE memCalls[c].op = "getSnapshot" ->
                /\ memCalls' = [memCalls EXCEPT
                     ![c].pc = "returned",
                     ![c].snapshot = Snapshot(memory, kvHeap)]
                /\ UNCHANGED <<stores, kvHeap>>
           [] memCalls[c].op = "get" ->
                /\ memCalls' = [memCalls EXCEPT
                     ![c].pc = "returned",
                     ![c].got = kvGet(kvHeap[memory.kv], memCalls[c].key)]
                /\ UNCHANGED <<stores, kvHeap>>
           [] memCalls[c].op = "set" ->
                /\ kvHeap' = [kvHeap EXCEPT ![memory.kv] =
                     kvSet(kvHeap[memory.kv], memCalls[c].key,
                           memCalls[c].value)]
                /\ stores' = [stores EXCEPT ![s].memory.updatedAt = now]
                /\ memCalls' = [memCalls EXCEPT ![c].pc = "mkdir"]
           [] OTHER ->
                /\ kvHeap' = applied.heap
                /\ stores' = [stores EXCEPT ![s].memory = applied.memory]
                /\ memCalls' = [memCalls EXCEPT
                     ![c].changed = applied.changed,
                     ![c].pc = IF applied.changed # <<>> THEN "mkdir"
                               ELSE "returned"]
  /\ UNCHANGED <<memoryFiles, memoryRest>>

\* responseParser.ts, lines 500-503: mkdir is done; writeToDisk serialises
\* this.memory as it is now and calls writeFile
MemoryMkdirSettles(c) ==
  /\ pc = "memory"
  /\ c \in DOMAIN memCalls
  /\ memCalls[c].pc = "mkdir"
  /\ memCalls' = [memCalls EXCEPT
       ![c].pc = "writing",
       ![c].data = memoryJson(stores[memCalls[c].store].memory, kvHeap)]
  /\ UNCHANGED <<memoryFiles, kvHeap, stores, memoryRest>>

\* responseParser.ts, line 502: writeFile is done and the call returns
MemoryWriteSettles(c) ==
  /\ pc = "memory"
  /\ c \in DOMAIN memCalls
  /\ memCalls[c].pc = "writing"
  /\ memoryFiles' = [memoryFiles EXCEPT
       ![memCalls[c].store] = JsonFile(memCalls[c].data)]
  /\ memCalls' = [memCalls EXCEPT ![c].pc = "returned"]
  /\ UNCHANGED <<kvHeap, stores, memoryRest>>

InitMemory ==
  /\ memoryFiles \in [StateDirs -> MemoryFileSet]
  /\ memoryFiles[2] = NoFile
  /\ kvHeap = << <<>> >>
  /\ stores = [s \in StateDirs |-> NewMemoryStore]
  /\ memCalls = <<>>
  /\ rawText = NoText
  /\ response = NoResponse
  /\ ScannerNew
  /\ AuditIdle
  /\ ShellIdle
  /\ LinksIdle
  /\ DiscoveryIdle
  /\ family = "memory"
  /\ pc = "memory"
  /\ AtRest

NextMemory ==
  \/ \E c \in 1..MaxMemCalls : MemoryCall(c)
  \/ \E c \in 1..MaxMemCalls : MemoryReadSettles(c)
  \/ \E c \in 1..MaxMemCalls : MemoryProceed(c)
  \/ \E c \in 1..MaxMemCalls : MemoryMkdirSettles(c)
  \/ \E c \in 1..MaxMemCalls : MemoryWriteSettles(c)

SpecMemory == InitMemory /\ [][NextMemory]_vars

\* C22 (memory single-writer discipline): for any interleaving of calls of
\* set and applyUpdates, the disk write of one mutation is done before
\* another mutation begins, so that two writes of one memory.json never
\* overlap, and once every call has returned the file holds the memory as
\* the last mutation left it.
MemorySingleWriter ==
  \A s \in DOMAIN stores :
    /\ Cardinality({ c \in DOMAIN memCalls :
                        /\ memCalls[c].store = s
                        /\ memCalls[c].pc \in {"mkdir", "writing"} }) <= 1
    /\ Cardinality(writersOf(s)) <= 1
    /\ ( /\ \A c \in DOMAIN memCalls :
              /\ memCalls[c].pc = "returned"
              /\ memCalls[c].op \in {"set", "applyUpdates"}
         /\ \E c \in DOMAIN memCalls :
              memCalls[c].store = s /\ memCalls[c].data # Undefined )
       => memoryFiles[s] = JsonFile(memoryJson(stores[s].memory, kvHeap))

\* C23 (memory list invariant): after loading and after any sequence of
\* applyUpdates calls, each of projectRules, architectureNotes and
\* commonCommands holds no duplicate, no empty or whitespace-only string,
\* only trimmed strings, and at most 200 entries.
MemoryListInvariant ==
  \A s \in DOMAIN stores :
    stores[s].loaded =>
      \A field \in {"projectRules", "architectureNotes", "commonCommands"} :
        LET list == stores[s].memory[field]
        IN  /\ \A i \in DOMAIN list : \A j \in DOMAIN list :
                 list[i] = list[j] => i = j
            /\ \A i \in DOMAIN list :
                 list[i] # <<>> /\ trim(list[i]) = list[i]
            /\ Len(list) <= MemoryListCap

\* C24 (absent memory file means empty memory): the getSnapshot of a
\* MemoryStore whose memory.json is absent at its first access, and on
\* which no other call was made, returns empty projectRules,
\* architectureNotes and commonCommands and an empty kv map, whatever set
\* and applyUpdates did before on other MemoryStore instances.
AbsentFileEmptyMemory ==
  \A c \in DOMAIN memCalls :
    ( /\ memCalls[c].op = "getSnapshot"
      /\ memCalls[c].pc = "returned"
      /\ memCalls[c].sawAbsent
      /\ \A d \in DOMAIN memCalls :
           d # c => memCalls[d].store # memCalls[c].store ) =>
      /\ memCalls[c].snapshot.projectRules = <<>>
      /\ memCalls[c].snapshot.architectureNotes = <<>>
      /\ memCalls[c].snapshot.commonCommands = <<>>
      /\ memCalls[c].snapshot.kv = <<>>

(***************************************************************************)
(* The audit trail on its own: the tasks started (runTask, lines 78-79),   *)
(* the calls of AuditLogger.log (audit/auditLogger.ts), and the file tools *)
(* and the rollback of a task applied to an audit file, which lies in the  *)
(* workspace: the state directory is <workspace>/.vibe-agent (config.ts,   *)
(* lines 52-56).  The clock advances between any two steps or not at all.  *)
(***************************************************************************)
AuditWords ==
  [ stateDir |-> <<".", "v", "i", "b", "e", "-", "a", "g", "e", "n", "t">>,
    audit |-> <<"a", "u", "d", "i", "t">>,
    jsonl |-> <<".", "j", "s", "o", "n", "l">>,
    epoch |-> <<"1", "9", "7", "0", "-", "0", "1", "-", "0", "1", "T",
                "0", "0", ":", "0", "0", ":", "0", "0", ".">>,
    ts |-> <<"t", "s">>,
    sessionId |-> <<"s", "e", "s", "s", "i", "o", "n", "I", "d">>,
    type |-> <<"t", "y", "p", "e">>,
    data |-> <<"d", "a", "t", "a">>,
    task_start |-> <<"t", "a", "s", "k", "_", "s", "t", "a", "r", "t">>,
    task_end |-> <<"t", "a", "s", "k", "_", "e", "n", "d">> ]

\* new Date(ms).toISOString() within the first second of the epoch
toISOString(ms) ==
  AuditWords.epoch
    \o (IF ms < 10 THEN <<"0", "0">> ELSE IF ms < 100 THEN <<"0">> ELSE <<>>)
    \o decimal(ms) \o <<"Z">>

\* agent.ts, line 78: replace(/[:.]/gu, "-")
replaceColonDot(s) ==
  [i \in DOMAIN s |-> IF s[i] \in {":", "."} THEN "-" ELSE s[i]]

\* agent.ts, line 78
sessionIdAt(ms) == replaceColonDot(toISOString(ms))

\* config.ts, lines 52-56
StateDir == pathResolve(WorkspaceRoot, AuditWords.stateDir)

\* auditLogger.ts, lines 16-20: the AuditLogger of a session
NewAuditLogger(sessionId) ==
  [ sessionId |-> sessionId,
    auditPath |->
      pathResolve(pathResolve(StateDir, AuditWords.audit),
                  sessionId \o AuditWords.jsonl),
    initialized |-> FALSE,
    calls |-> 0,
    logged |-> 0 ]

\* auditLogger.ts, lines 31-37: JSON.stringify(event) and the line feed
eventLine(ts, sessionId, type) ==
  objectText(<< member(AuditWords.ts, quote(ts)),
                member(AuditWords.sessionId, quote(sessionId)),
                member(AuditWords.type, quote(type)),
                member(AuditWords.data, <<"{", "}">>) >>) \o <<"\n">>

\* the audit file of a session as a path a model response may give
auditUserPath(sessionId) ==
  AuditWords.stateDir \o <<"/">> \o AuditWords.audit \o <<"/">>
    \o sessionId \o AuditWords.jsonl

\* what a step of the audit trail leaves alone
auditRest ==
  << family, policy, config, disk0, rawText, response, scannerVars,
     memoryVars, shellVars, linkVars, discoveryVars, modelCalls, historyVars, pc, loop, responseVars, pending,
     verifyVars, toolResults, loopHadWrites, flagVars, conversation,
     changedByWrite, auditOut, auditFailed, uiOut, spawnOut, fsOut, pathVars >>

\* a millisecond passes
ClockTick ==
  /\ pc = "audit"
  /\ clock + 1 < MaxSessions
  /\ clock' = clock + 1
  /\ UNCHANGED <<sessions, disk, changeTracker, auditRest>>

\* agent.ts, lines 78-79: a call of runTask makes its session id and its
\* AuditLogger
RunTaskStarts ==
  /\ pc = "audit"
  /\ Len(sessions) < MaxSessions
  /\ sessions' = Append(sessions, NewAuditLogger(sessionIdAt(clock)))
  /\ UNCHANGED <<clock, disk, changeTracker, auditRest>>

\* the calls of log made by all tasks
RECURSIVE callsFrom(_)
callsFrom(i) ==
  IF i > Len(sessions) THEN 0 ELSE sessions[i].calls + callsFrom(i + 1)

logCalls == callsFrom(1)

\* auditLogger.ts, lines 26-38: a call of log by the task s, the first one
\* with task_start; mkdir or appendFile may fail with an IO error, which
\* leaves log
AuditLog(s) ==
  /\ pc = "audit"
  /\ s \in DOMAIN sessions
  /\ logCalls < MaxLogs
  /\ \E outcome \in {"mkdir failed", "append failed", "appended"} :
       LET logger == sessions[s]
           type == IF logger.calls = 0 THEN AuditWords.task_start
                   ELSE AuditWords.task_end
           old == IF logger.auditPath \in DOMAIN disk
                    THEN disk[logger.auditPath] ELSE <<>>
           line == eventLine(toISOString(clock), logger.sessionId, type)
       IN  /\ outcome = "mkdir failed" => ~logger.initialized
           /\ sessions' = [sessions EXCEPT
                ![s].calls = logger.calls + 1,
                ![s].initialized =
                  logger.initialized \/ outcome # "mkdir failed",
                ![s].logged =
                  IF outcome = "appended" THEN logger.logged + 1
                  ELSE logger.logged]
           /\ disk' = IF outcome = "appended"
                        THEN (logger.auditPath :> (old \o line)) @@ disk
                        ELSE disk
  /\ UNCHANGED <<clock, changeTracker, auditRest>>

\* agent.ts, lines 484-556: a write_file action of the first task whose
\* path is the audit file of the task s, and which the user approves
WriteAuditFile(s) ==
  /\ pc = "audit"
  /\ s \in DOMAIN sessions
  /\ \E answer \in {"yes"} :
       \E x \in {executeWriteFile(policy, disk, changeTracker,
                    WriteAction(auditUserPath(sessions[s].sessionId), TextX),
                    answer)} :
           /\ disk' = x.disk
           /\ changeTracker' = x.tracker
  /\ UNCHANGED <<clock, sessions, auditRest>>

\* agent.ts, lines 314-325: the user accepts the rollback of the first task
RollbackAudit ==
  /\ pc = "audit"
  /\ hasChanges(changeTracker)
  /\ \E x \in {rollback(changeTracker, disk, WorkspaceRoot)} :
       disk' = x.disk
  /\ UNCHANGED <<clock, sessions, changeTracker, auditRest>>

InitAudit ==
  /\ clock = 0
  /\ sessions = <<>>
  /\ MemoryIdle
  /\ ShellIdle
  /\ LinksIdle
  /\ DiscoveryIdle
  /\ rawText = NoText
  /\ response = NoResponse
  /\ ScannerNew
  /\ family = "audit"
  /\ pc = "audit"
  /\ AtRest

NextAudit ==
  \/ ClockTick
  \/ RunTaskStarts
  \/ \E s \in 1..MaxSessions : AuditLog(s)
  \/ \E s \in 1..MaxSessions : WriteAuditFile(s)
  \/ RollbackAudit

SpecAudit == InitAudit /\ [][NextAudit]_vars

\* C26 (append-only audit trail): during a task, each successful call of
\* log extends the audit file of the session by exactly one line, and no
\* operation of the task (logging, the dispatch of an action, write_file
\* included, verify, rollback) removes or alters a line already written
\* to that file.
AppendOnlyAudit ==
  [][ \A s \in DOMAIN sessions :
        LET p == sessions[s].auditPath
            old == IF p \in DOMAIN disk THEN disk[p] ELSE <<>>
            new == IF p \in DOMAIN disk' THEN disk'[p] ELSE <<>>
            lines(text) ==
              Cardinality({i \in DOMAIN text : text[i] = "\n"})
        IN  /\ startsWith(new, old)
            /\ sessions'[s].logged = sessions[s].logged + 1 =>
                 /\ lines(new) = lines(old) + 1
                 /\ new[Len(new)] = "\n" ]_vars

\* C27 (session id uniqueness): any two distinct calls of runTask obtain
\* different session ids, and so never write their events to the same
\* audit file.
SessionIdsUnique ==
  \A s \in DOMAIN sessions : \A t \in DOMAIN sessions :
    s # t =>
      /\ sessions[s].sessionId # sessions[t].sessionId
      /\ sessions[s].auditPath # sessions[t].auditPath

\* every variable of a task but auditFailed
exceptAudit ==
  << taskVars, modelCalls, historyVars, disk, changeTracker, pc, loop,
     responseVars, pending, verifyVars, toolResults, loopHadWrites, flagVars,
     conversation, changedByWrite, auditOut, uiOut, spawnOut, fsOut,
     pathVars >>

InitLogFaults == Init /\ family = "logfaults"

SpecLogFaults == InitLogFaults /\ [][Next]_vars

(***************************************************************************)
(* tools/shell.ts: runShellCommand on its own, called by the run_command   *)
(* case of executeAction and by runVerifyCommand, one call after the       *)
(* other.  The process of a call is the shell given the command; what it   *)
(* does is drawn from ProcessKinds.  The timer, the close and the error    *)
(* callbacks are run by the event loop; the operating system delivers the  *)
(* signal of child.kill().                                                 *)
(***************************************************************************)
\* what the process of a command does: it exits with 0 or 1 on its own, it
\* runs until it is signalled, it runs on and ignores SIGTERM, it leaves a
\* descendant that holds its output pipes, or it cannot be spawned
ProcessKinds == {"exit 0", "exit 1", "hang", "stubborn", "orphan", "no spawn"}

ShellCallers == {"run_command", "verify"}

\* the chunks a process writes
Chunks == {<<"o">>, <<"o", "o">>}

\* shell.ts, lines 267-277
appendCapped(current, chunk, maxChars) ==
  IF Len(current) >= maxChars
    THEN current
    ELSE current \o SubSeq(chunk, 1, Min(Len(chunk), maxChars - Len(current)))

\* runShellCommand, lines 289-304: the child is spawned and the timer set
\* (exitCode -1 stands for null)
NewChild(caller, kind) ==
  [ caller |-> caller,
    kind |-> kind,
    proc |-> IF kind = "no spawn" THEN "unspawned" ELSE "running",
    pipes |-> IF kind = "no spawn" THEN "closed" ELSE "open",
    exitCode |-> -1,
    signalled |-> FALSE,
    aliveAtTimeout |-> FALSE,
    stdout |-> <<>>,
    timedOut |-> FALSE,
    settled |-> FALSE,
    timer |-> "armed",
    outcome |-> "pending",
    ok |-> FALSE,
    next |-> "awaiting" ]

\* the outcome of a CommandResult, as executeAction and runVerifyCommand
\* read it (exitCode === 0 && !timedOut)
outcomeOf(child) ==
  IF child.timedOut THEN "timed out"
  ELSE IF child.exitCode = 0 THEN "exit 0" ELSE "exit 1"

\* clearTimeout(timer)
clearTimeout(timer) == IF timer = "armed" THEN "cleared" ELSE timer

\* the result run_command (executeAction, lines 451-482 and 668-674) or
\* verify (runVerifyCommand) makes of a settled call, and where the loop of
\* the caller goes
reported(caller, command, outcome) ==
  IF caller = "run_command"
    THEN LET x == executeRunCommand(DEFAULT_POLICY, RunAction(command), outcome)
         IN  [ok |-> x.result.ok, next |-> afterAction(x.threw)]
    ELSE LET x == runVerifyCommand(command, DEFAULT_POLICY, outcome)
         IN  [ok |-> x.result.ok, next |-> "verify"]

shellRest ==
  << family, policy, config, disk, disk0, rawText, response, scannerVars,
     memoryVars, auditVars, linkVars, discoveryVars, modelCalls, historyVars, changeTracker,
     pc, loop, responseVars, pending, verifyVars, toolResults, loopHadWrites,
     flagVars, conversation, changedByWrite, auditOut, auditFailed, uiOut,
     spawnOut, fsOut, pathVars >>

\* a call of runShellCommand, lines 279-304; the caller awaits each call
RunShellCommand ==
  /\ pc = "shell"
  /\ Len(children) < MaxRuns
  /\ children # <<>> => children[Len(children)].outcome # "pending"
  /\ \E caller \in ShellCallers, kind \in ProcessKinds :
       children' = Append(children, NewChild(caller, kind))
  /\ UNCHANGED shellRest

\* lines 306-312: the process writes a chunk to its output
ChildOutput(i) ==
  /\ i \in DOMAIN children
  /\ children[i].pipes = "open"
  /\ \E chunk \in Chunks :
       children' = [children EXCEPT
         ![i].stdout = appendCapped(@, chunk, MaxOutputChars)]
  /\ UNCHANGED shellRest

\* the process exits on its own
ProcessExits(i) ==
  /\ i \in DOMAIN children
  /\ children[i].proc = "running"
  /\ children[i].kind \in {"exit 0", "exit 1", "orphan"}
  /\ children' = [children EXCEPT
       ![i].proc = "exited",
       ![i].exitCode = IF children[i].kind = "exit 1" THEN 1 ELSE 0,
       ![i].pipes = IF children[i].kind = "orphan" THEN "open" ELSE "closed"]
  /\ UNCHANGED shellRest

\* lines 301-304: the timeout elapses; child.kill() sends SIGTERM to a
\* process that runs and does nothing to one that ended
TimerFires(i) ==
  /\ i \in DOMAIN children
  /\ children[i].timer = "armed"
  /\ children' = [children EXCEPT
       ![i].timer = "fired",
       ![i].timedOut = TRUE,
       ![i].signalled = (children[i].proc = "running"),
       ![i].aliveAtTimeout = (children[i].proc = "running")]
  /\ UNCHANGED shellRest

\* SIGTERM ends a process that does not ignore it
SignalDelivered(i) ==
  /\ i \in DOMAIN children
  /\ children[i].proc = "running"
  /\ children[i].signalled
  /\ children[i].kind # "stubborn"
  /\ children' = [children EXCEPT
       ![i].proc = "exited",
       ![i].exitCode = -1,
       ![i].pipes = IF children[i].kind = "orphan" THEN "open" ELSE "closed"]
  /\ UNCHANGED shellRest

\* the descendant that holds the pipes ends
OrphanEnds(i) ==
  /\ i \in DOMAIN children
  /\ children[i].proc = "exited"
  /\ children[i].pipes = "open"
  /\ children' = [children EXCEPT ![i].pipes = "closed"]
  /\ UNCHANGED shellRest

\* lines 323-337: the close event, once the process ended and its pipes are
\* closed; the caller makes its result of the CommandResult
CloseEvent(i) ==
  /\ i \in DOMAIN children
  /\ children[i].proc = "exited"
  /\ children[i].pipes = "closed"
  /\ ~children[i].settled
  /\ \E r \in {reported(children[i].caller, CmdLs, outcomeOf(children[i]))} :
       children' = [children EXCEPT
         ![i].settled = TRUE,
         ![i].timer = clearTimeout(@),
         ![i].outcome = "resolved",
         ![i].ok = r.ok,
         ![i].next = r.next]
  /\ UNCHANGED shellRest

\* lines 314-321: the error event of a process that could not be spawned;
\* the promise rejects
ErrorEvent(i) ==
  /\ i \in DOMAIN children
  /\ children[i].proc = "unspawned"
  /\ ~children[i].settled
  /\ \E r \in {reported(children[i].caller, CmdLs, "spawn error")} :
       children' = [children EXCEPT
         ![i].settled = TRUE,
         ![i].timer = clearTimeout(@),
         ![i].outcome = "rejected",
         ![i].ok = r.ok,
         ![i].next = r.next]
  /\ UNCHANGED shellRest

InitShell ==
  /\ children = <<>>
  /\ MemoryIdle
  /\ AuditIdle
  /\ LinksIdle
  /\ DiscoveryIdle
  /\ rawText = NoText
  /\ response = NoResponse
  /\ ScannerNew
  /\ family = "shell"
  /\ pc = "shell"
  /\ AtRest

NextShell ==
  \/ RunShellCommand
  \/ \E i \in 1..MaxRuns : ChildOutput(i)
  \/ \E i \in 1..MaxRuns : ProcessExits(i)
  \/ \E i \in 1..MaxRuns : TimerFires(i)
  \/ \E i \in 1..MaxRuns : SignalDelivered(i)
  \/ \E i \in 1..MaxRuns : OrphanEnds(i)
  \/ \E i \in 1..MaxRuns : CloseEvent(i)
  \/ \E i \in 1..MaxRuns : ErrorEvent(i)

\* the event loop runs a timer that is due and a callback whose event came,
\* and the operating system delivers a signal that was sent; nothing makes
\* a process or its descendants end
SpecShell ==
  /\ InitShell
  /\ [][NextShell]_vars
  /\ WF_vars(\E i \in 1..MaxRuns : TimerFires(i))
  /\ WF_vars(\E i \in 1..MaxRuns : SignalDelivered(i))
  /\ WF_vars(\E i \in 1..MaxRuns : CloseEvent(i))
  /\ WF_vars(\E i \in 1..MaxRuns : ErrorEvent(i))
  /\ WF_vars(RunShellCommand)

\* C28 (child-process timeout): every call of runShellCommand whose process
\* still runs when the timeout elapses has the process killed and eventually
\* returns a result with timedOut = true, which run_command and verify
\* report as ok = false, the loop of the caller going on.
ChildTimeout ==
  \A i \in 1..MaxRuns :
    (i \in DOMAIN children /\ children[i].aliveAtTimeout)
      ~> /\ i \in DOMAIN children
         /\ children[i].proc = "exited"
         /\ children[i].outcome = "resolved"
         /\ children[i].timedOut
         /\ ~children[i].ok
         /\ children[i].next \in {"actions", "verify"}

(***************************************************************************)
(* The file tools on a filesystem with symbolic links.  A file tool gives  *)
(* the path resolveWorkspacePath returned to a system call (fs.readFile,   *)
(* fs.stat, fs.readdir, fs.mkdir, fs.writeFile, fs.access, fs.unlink); the *)
(* operating system follows the links of every component of that path, of  *)
(* the last one too except for unlink.  The links drawn are absolute and   *)
(* free of cycles; the disk is keyed by the real paths of the files.       *)
(***************************************************************************)
PathL == <<"l">>

PathOutsideDir == <<"/", "o">>

PathOutsideFile == <<"/", "o", "/", "s">>

\* the paths a model may give to a file tool
LinkPaths ==
  { PathA, PathL, <<"l", "/", "s">>, <<"l", "/", "x">>,
    <<"l", "/", ".", ".", "/", "a">>, <<".", ".", "/", "o", "/", "s">>,
    PathOutsideFile, <<".">> }

\* the links of the workspace: none, a link to a directory outside the
\* root, to a file outside it, to a file inside it, and a link to a link
LinkSets ==
  { EmptyDisk,
    pathResolve(WorkspaceRoot, PathL) :> PathOutsideDir,
    pathResolve(WorkspaceRoot, PathL) :> PathOutsideFile,
    pathResolve(WorkspaceRoot, PathL) :> pathResolve(WorkspaceRoot, PathA),
    (pathResolve(WorkspaceRoot, PathL) :> pathResolve(WorkspaceRoot, <<"k">>))
      @@ (pathResolve(WorkspaceRoot, <<"k">>) :> PathOutsideDir) }

\* the path the operating system reaches from the directory cur by the
\* components segs
RECURSIVE realFrom(_, _, _)
realFrom(links, cur, segs) ==
  IF segs = <<>>
    THEN cur
    ELSE LET next == cur \o <<Sep>> \o Head(segs)
         IN  IF next \in DOMAIN links
               THEN realFrom(links, <<>>,
                             normalizeSegs(Segments(links[next]), <<>>)
                               \o Tail(segs))
               ELSE realFrom(links, next, Tail(segs))

\* the object a system call that follows links reaches by the path p
realpath(links, p) ==
  CHOOSE out \in
    { IF real = <<>> THEN <<Sep>> ELSE real :
        real \in {realFrom(links, <<>>, normalizeSegs(Segments(p), <<>>))} } :
    TRUE

\* the object fs.unlink reaches: the links of the directory are followed,
\* the last component is not
realpathOfEntry(links, p) ==
  CHOOSE out \in
    { IF segs = <<>> THEN <<Sep>>
      ELSE realFrom(links, <<>>, SubSeq(segs, 1, Len(segs) - 1))
             \o <<Sep>> \o segs[Len(segs)] :
        segs \in {normalizeSegs(Segments(p), <<>>)} } : TRUE

\* a file tool of fileTools.ts called with (root, userPath): the path is
\* resolved by resolveWorkspacePath and the system calls of the tool act on
\* the object the operating system reaches by it
linkedFileTool(tool, d, links, root, userPath) ==
  CHOOSE out \in
    { IF ~r.ok
        THEN [ok |-> FALSE, disk |-> d, touched |-> {}]
        ELSE LET real == IF tool = "deleteFileIfExists"
                           THEN realpathOfEntry(links, r.path)
                           ELSE realpath(links, r.path)
                 x == CASE tool = "list_files" -> listFiles(d, <<Sep>>, real)
                        [] tool = "read_file" ->
                             readFileSegment(d, <<Sep>>, real)
                        [] tool = "writeFile" ->
                             writeFile(d, <<Sep>>, real, TextY)
                        [] tool = "readFileIfExists" ->
                             readFileIfExists(d, <<Sep>>, real)
                        [] tool = "fileExists" -> fileExists(d, <<Sep>>, real)
                        [] OTHER -> deleteFileIfExists(d, <<Sep>>, real)
             IN  [ ok |-> x.ok,
                   disk |-> IF tool \in {"writeFile", "deleteFileIfExists"}
                              THEN x.disk ELSE d,
                   touched |-> x.touched ] :
        r \in {resolveWorkspacePath(root, userPath)} } : TRUE

\* the files and directories among the paths touched that the call read,
\* listed, wrote, created or removed (fs.access reads none, and neither
\* does a call that threw)
reached(tool, ok, before, after, touched) ==
  IF tool = "fileExists" \/ ~ok
    THEN {}
    ELSE { p \in touched :
             \/ p \in DOMAIN before \cup DOMAIN after
             \/ isDirectory(after, <<Sep>>, p) }

linksRest ==
  << family, policy, config, disk0, rawText, response, scannerVars,
     memoryVars, auditVars, shellVars, modelCalls, historyVars, changeTracker,
     loop, responseVars, pending, verifyVars, toolResults, loopHadWrites,
     flagVars, conversation, changedByWrite, auditOut, auditFailed, uiOut,
     spawnOut, pathIn, symlinks, discoveryVars >>

\* one file tool called with (root, userPath)
LinkedFileTool ==
  /\ pc = "links"
  /\ \E tool \in FileTools :
       \E x \in {linkedFileTool(tool, disk, symlinks, pathIn.root,
                                pathIn.userPath)} :
         /\ pathOut' = [done |-> TRUE]
                         @@ resolveWorkspacePath(pathIn.root, pathIn.userPath)
         /\ toolOut' = [tool |-> tool, ok |-> x.ok]
         /\ disk' = x.disk
         /\ fsOut' = x.touched
         /\ realOut' = reached(tool, x.ok, disk, x.disk, x.touched)
  /\ pc' = "linked"
  /\ UNCHANGED linksRest

InitLinks ==
  /\ pathIn \in [root : {WorkspaceRoot}, userPath : LinkPaths]
  /\ symlinks \in LinkSets
  /\ realOut = {}
  /\ pathOut = NoResolve
  /\ toolOut = NoTool
  /\ modelCalls = 0
  /\ rollbackPrompts = 0
  /\ restoredFiles = <<>>
  /\ lastVerifyFailed = FALSE
  /\ repairRounds = 0
  /\ rawText = NoText
  /\ response = NoResponse
  /\ ScannerNew
  /\ MemoryIdle
  /\ AuditIdle
  /\ ShellIdle
  /\ DiscoveryIdle
  /\ family = "links"
  /\ policy = DEFAULT_POLICY
  /\ config = DefaultConfig
  /\ disk = (pathResolve(WorkspaceRoot, PathA) :> TextX) @@ (PathOutsideFile :> TextY)
  /\ disk0 = disk
  /\ changeTracker = NewChangeTracker
  /\ pc = "links"
  /\ loop = 0
  /\ status = "none"
  /\ pending = <<>>
  /\ verify = <<>>
  /\ verifyCommands = <<>>
  /\ verifyIdx = 0
  /\ toolResults = <<>>
  /\ loopHadWrites = FALSE
  /\ loopVerifyFailed = FALSE
  /\ hadVerifyFailures = FALSE
  /\ consecutiveVerifyFailures = 0
  /\ completed = FALSE
  /\ maxIterationReached = FALSE
  /\ abortedByError = FALSE
  /\ stoppedEarly = FALSE
  /\ conversation = <<>>
  /\ changedByWrite = {}
  /\ auditOut = <<>>
  /\ auditFailed = {}
  /\ uiOut = <<>>
  /\ spawnOut = {}
  /\ fsOut = {}

NextLinks == LinkedFileTool

SpecLinks == InitLinks /\ [][NextLinks]_vars

\* C29 (no symlink escape): no file tool reads, writes or deletes a
\* filesystem object outside the workspace root, also when the user path
\* passes through a symbolic link of the workspace whose target lies
\* outside the root.
NoSymlinkEscape ==
  \A p \in realOut :
    \/ p = normalizeForComparison(pathIn.root)
    \/ startsWith(p, rootPrefixOf(normalizeForComparison(pathIn.root)))

\* C30 (consecutive-failure counter): after every iteration the counter is
\* the number of most recent consecutive iterations in which a verify
\* command failed: an iteration with a failing verify command leaves it one
\* higher, any other iteration leaves it 0, and nothing else changes it.
ConsecutiveFailureCounter ==
  [][ IF pc = "verify" /\ pc' # "verify"
        THEN consecutiveVerifyFailures' =
               (IF loopVerifyFailed THEN consecutiveVerifyFailures + 1 ELSE 0)
        ELSE UNCHANGED consecutiveVerifyFailures
    ]_vars

\* C30 as the code has it: an iteration that ran verify commands leaves the
\* counter one higher when one of them failed and 0 when none did, an
\* iteration that ran none leaves it as it was, the user's yes to the repair
\* limit prompt resets it to 0, and nothing else changes it.
CounterFollowsVerifyRuns ==
  [][ IF pc = "verify" /\ pc' # "verify"
        THEN consecutiveVerifyFailures' =
               CASE Confirm("repair", NoText, "yes") \in Range(uiOut') -> 0
                 [] verifyCommands = <<>> -> consecutiveVerifyFailures
                 [] loopVerifyFailed -> consecutiveVerifyFailures + 1
                 [] OTHER -> 0
        ELSE UNCHANGED consecutiveVerifyFailures
    ]_vars

\* an iteration without verify commands ended after one whose verify command
\* failed, and the counter is still 1
StaleCounterWitness ==
  /\ pc = "resolve"
  /\ loop = 2
  /\ verifyCommands = <<>>
  /\ consecutiveVerifyFailures = 1

\* C31 (per-write order): a write_file action passes the policy check, the
\* secret scan, the diff preview, the approval and, only when approved, the
\* commit, in that order: a write the path policy or the secret scan blocks
\* gets no write_proposed event, no approval prompt and no commit, a write
\* blocked by both is reported as blocked by the path policy, every
\* write_applied or write_rejected event follows a write_proposed event of
\* the same action and an approval prompt for its path, and a file is
\* written only after the user said yes.
WriteStepOrder ==
  [][ (pc = "actions" /\ pending # <<>> /\ Head(pending).tool = "write_file") =>
        \E action \in {Head(pending)} :
          \E pathBlocked \in {~isWritePathAllowed(policy, action.path).allowed},
             secretsBlocked \in {/\ Len(detectSecrets(action.content)) > 0
                                 /\ ~policy.allowPotentialSecrets} :
            /\ (pathBlocked \/ secretsBlocked) =>
                 /\ "write_proposed" \notin Range(auditOut')
                 /\ uiOut' = <<>>
                 /\ disk' = disk
                 /\ changeTracker' = changeTracker
                 /\ ~toolResults'[Len(toolResults')].ok
            /\ pathBlocked =>
                 toolResults'[Len(toolResults')].summary = "Blocked by policy:"
            /\ \A i \in DOMAIN auditOut' :
                 auditOut'[i] \in {"write_applied", "write_rejected"} =>
                   /\ \E j \in 1..(i - 1) : auditOut'[j] = "write_proposed"
                   /\ \E answer \in AnswerSet :
                        uiOut' = <<Confirm("write", action.path, answer)>>
            /\ "write_applied" \in Range(auditOut') =>
                 uiOut' = <<Confirm("write", action.path, "yes")>>
            /\ disk' # disk =>
                 /\ uiOut' = <<Confirm("write", action.path, "yes")>>
                 /\ "write_proposed" \in Range(auditOut')
    ]_vars

\* a write passed both gates, was proposed and shown to the user, who
\* rejected it
WriteStepOrderWitness ==
  /\ toolResults # <<>>
  /\ toolResults[Len(toolResults)].tool = "write_file"
  /\ auditOut = <<"write_proposed", "write_rejected", "action_result">>
  /\ uiOut # <<>>
  /\ disk = disk0

\* C32: an iteration is strictly serial.  Its audit events are loop_start,
\* model_response, then one action_result per action in the order of
\* modelResponse.actions, then one verify_result per verify command in the
\* order of the verify list, the model's own commands first; an action is
\* dispatched only when the result of the previous one is in toolResults,
\* and no verify command is collected or spawned while an action is pending.
SerialIteration ==
  [][ /\ "loop_start" \in Range(auditOut') =>
            /\ pc = "loop"
            /\ auditOut'[1] = "loop_start"
            /\ \A i \in DOMAIN auditOut' : i > 1 => auditOut'[i] = "model_response"
            /\ Len(auditOut') <= 2
      /\ "model_response" \in Range(auditOut') =>
            /\ auditOut' = <<"loop_start", "model_response">>
            /\ pc' = "actions"
            /\ toolResults' = <<>>
      /\ "action_result" \in Range(auditOut') =>
            /\ pc = "actions"
            /\ pending # <<>>
            /\ auditOut'[Len(auditOut')] = "action_result"
            /\ \A i \in DOMAIN auditOut' :
                 auditOut'[i] = "action_result" => i = Len(auditOut')
            /\ "verify_result" \notin Range(auditOut')
            /\ pending' = Tail(pending)
            /\ Len(toolResults') = Len(toolResults) + 1
            /\ SubSeq(toolResults', 1, Len(toolResults)) = toolResults
            /\ toolResults'[Len(toolResults')].tool = Head(pending).tool
            /\ pc' = "actions"
      /\ pending' # pending =>
            \/ pc = "loop" /\ toolResults' = <<>>
            \/ /\ pc = "actions"
               /\ pending' = Tail(pending)
               /\ Len(toolResults') = Len(toolResults) + 1
      /\ (pc = "actions" /\ pc' # "actions") =>
            /\ pending = <<>>
            /\ pc' = "verify"
            /\ auditOut' = <<>>
            /\ spawnOut' = {}
            /\ verifyIdx' = 0
            /\ Len(verifyCommands') >= Len(verify)
            /\ SubSeq(verifyCommands', 1, Len(verify)) = verify
      /\ "verify_result" \in Range(auditOut') =>
            /\ pc = "verify"
            /\ pending = <<>>
            /\ auditOut' = <<"verify_result">>
            /\ verifyIdx < Len(verifyCommands)
            /\ verifyIdx' = verifyIdx + 1
            /\ verifyCommands' = verifyCommands
            /\ spawnOut' \subseteq {verifyCommands[verifyIdx + 1]}
            /\ Len(toolResults') = Len(toolResults) + 1
            /\ toolResults'[Len(toolResults')].tool = "verify"
      /\ spawnOut' # {} =>
            \/ /\ pc = "actions"
               /\ pending # <<>>
               /\ Head(pending).tool = "run_command"
               /\ spawnOut' = {Head(pending).command}
            \/ /\ pc = "verify"
               /\ pending = <<>>
               /\ spawnOut' = {verifyCommands[verifyIdx + 1]}
      /\ (pc = "verify" /\ pc' # "verify") => verifyIdx = Len(verifyCommands)
    ]_vars

\* an iteration ran two actions and then its verify command
SerialIterationWitness ==
  /\ pc = "verify"
  /\ Len(toolResults) = 3
  /\ toolResults[1].tool = "read_file"
  /\ toolResults[2].tool = "run_command"
  /\ toolResults[3].tool = "verify"
  /\ verifyIdx = Len(verifyCommands)
  /\ auditOut = <<"verify_result">>

(***************************************************************************)
(* Auto-verify discovery: discoverAutoVerifyCommands and the verify list   *)
(* runTask builds from it, run on their own on a memory, a package.json    *)
(* and the Python files of a workspace.                                    *)
(***************************************************************************)
\* the longest verify list of a model response
MaxDeclared == 2

\* runTask, line 196: maxCommands
MaxAutoVerify == 8

NpmTest ==
  <<"n", "p", "m", " ", "r", "u", "n", " ", "-", "s", " ", "t", "e", "s",
    "t", " ", "-", "-", "i", "f", "-", "p", "r", "e", "s", "e", "n", "t">>

NpmLint ==
  <<"n", "p", "m", " ", "r", "u", "n", " ", "-", "s", " ", "l", "i", "n",
    "t", " ", "-", "-", "i", "f", "-", "p", "r", "e", "s", "e", "n", "t">>

NpmFormatCheck ==
  <<"n", "p", "m", " ", "r", "u", "n", " ", "-", "s", " ", "f", "o", "r",
    "m", "a", "t", ":", "c", "h", "e", "c", "k", " ", "-", "-", "i", "f",
    "-", "p", "r", "e", "s", "e", "n", "t">>

NpmFormat ==
  <<"n", "p", "m", " ", "r", "u", "n", " ", "-", "s", " ", "f", "o", "r",
    "m", "a", "t", " ", "-", "-", "i", "f", "-", "p", "r", "e", "s", "e",
    "n", "t">>

NpmTypecheck ==
  <<"n", "p", "m", " ", "r", "u", "n", " ", "-", "s", " ", "t", "y", "p",
    "e", "c", "h", "e", "c", "k", " ", "-", "-", "i", "f", "-", "p", "r",
    "e", "s", "e", "n", "t">>

NpmCheck ==
  <<"n", "p", "m", " ", "r", "u", "n", " ", "-", "s", " ", "c", "h", "e",
    "c", "k", " ", "-", "-", "i", "f", "-", "p", "r", "e", "s", "e", "n",
    "t">>

PytestQ == <<"p", "y", "t", "e", "s", "t", " ", "-", "q">>

RuffCheck == <<"r", "u", "f", "f", " ", "c", "h", "e", "c", "k", " ", ".">>

BlackCheck ==
  <<"b", "l", "a", "c", "k", " ", "-", "-", "c", "h", "e", "c", "k", " ",
    ".">>

MypyDot == <<"m", "y", "p", "y", " ", ".">>

VerifyPrefix == <<"v", "e", "r", "i", "f", "y", ":">>

\* entries of memory.commonCommands
MemoryVerifyLs == <<"v", "e", "r", "i", "f", "y", ":", "l", "s">>

MemoryVerifyPytest ==
  <<" ", "V", "E", "R", "I", "F", "Y", ":", " ", "p", "y", "t", "e", "s",
    "t", " ", "-", "q", " ">>

MemoryRunLs == <<"r", "u", "n", ":", "l", "s">>

MemoryBlank == <<" ">>

MemoryLists ==
  { <<>>,
    <<MemoryVerifyLs>>,
    <<MemoryRunLs, MemoryBlank, MemoryVerifyPytest>>,
    <<MemoryVerifyPytest, MemoryVerifyLs, MemoryVerifyLs>> }

\* package.json: whether it parses, and its scripts with a non-empty value
PackageFiles ==
  { [valid |-> TRUE, scripts |-> {}],
    [valid |-> FALSE, scripts |-> {}],
    [valid |-> TRUE, scripts |-> {"test"}],
    [valid |-> TRUE, scripts |-> {"lint", "format", "start"}],
    [valid |-> TRUE,
     scripts |-> {"test", "lint", "format:check", "format", "typecheck", "check"}] }

\* pyproject.toml, requirements.txt, requirements-dev.txt and setup.cfg,
\* joined
PythonFiles ==
  { <<>>, <<"P", "y", "T", "e", "s", "t">>, <<"r", "u", "f", "f", "\n", "b", "l", "a", "c", "k">>, <<"p", "y", "t", "e", "s", "t", "\n", "r", "u", "f", "f", "\n", "b", "l", "a", "c", "k", "\n", "m", "y", "p", "y">> }

DiscoverInputs ==
  [memory : MemoryLists, package : PackageFiles, python : PythonFiles]

\* the verify lists of a model response
DeclaredVerify == SeqUpTo({CmdLs, NpmTest}, MaxDeclared)

\* addUnique, lines 167-174
addUnique(target, value) ==
  IF value \in Range(target) THEN target ELSE Append(target, value)

RECURSIVE addUniqueAll(_, _)
addUniqueAll(target, values) ==
  IF values = <<>> THEN target
  ELSE addUniqueAll(addUnique(target, Head(values)), Tail(values))

\* the commands of a list of <<condition, command>> pairs whose condition holds
whenPresent(pairs) ==
  addUniqueAll(<<>>, [i \in DOMAIN SelectSeq(pairs, LAMBDA q : q[1]) |->
                        SelectSeq(pairs, LAMBDA q : q[1])[i][2]])

\* detectNodeVerifyCommands, lines 176-210
detectNodeVerifyCommands(package) ==
  IF ~package.valid THEN <<>>
  ELSE whenPresent(<< <<"test" \in package.scripts, NpmTest>>,
                      <<"lint" \in package.scripts, NpmLint>>,
                      <<"format:check" \in package.scripts, NpmFormatCheck>>,
                      <<"format:check" \notin package.scripts
                          /\ "format" \in package.scripts, NpmFormat>>,
                      <<"typecheck" \in package.scripts, NpmTypecheck>>,
                      <<"check" \in package.scripts, NpmCheck>> >>)

\* detectPythonVerifyCommands, lines 212-239
detectPythonVerifyCommands(combined) ==
  LET text == toLowerCase(combined) IN
    whenPresent(<< <<includes(text, <<"p", "y", "t", "e", "s", "t">>), PytestQ>>,
                   <<includes(text, <<"r", "u", "f", "f">>), RuffCheck>>,
                   <<includes(text, <<"b", "l", "a", "c", "k">>), BlackCheck>>,
                   <<includes(text, <<"m", "y", "p", "y">>), MypyDot>> >>)

\* extractMemoryVerifyCommands, lines 241-253
RECURSIVE extractMemoryVerifyCommands(_)
extractMemoryVerifyCommands(commonCommands) ==
  IF commonCommands = <<>> THEN <<>>
  ELSE LET trimmed == trim(Head(commonCommands))
           rest == extractMemoryVerifyCommands(Tail(commonCommands))
       IN IF trimmed # <<>> /\ startsWith(toLowerCase(trimmed), VerifyPrefix)
            THEN addUniqueAll(<<trim(SubSeq(trimmed, Len(VerifyPrefix) + 1,
                                            Len(trimmed)))>>, rest)
            ELSE rest

\* discoverAutoVerifyCommands, lines 255-283
discoverAutoVerifyCommands(in, maxCommands) ==
  LET commands ==
        addUniqueAll(addUniqueAll(extractMemoryVerifyCommands(in.memory),
                                  detectNodeVerifyCommands(in.package)),
                     detectPythonVerifyCommands(in.python))
  IN SubSeq(commands, 1,
            Min(Len(commands), IF maxCommands > 1 THEN maxCommands ELSE 1))

\* runTask, lines 190-206: the verify list of an iteration
verifyList(declared, autoVerify, hadWrites, in) ==
  IF autoVerify /\ hadWrites
    THEN addMissing(declared, discoverAutoVerifyCommands(in, MaxAutoVerify))
    ELSE declared

InitDiscover ==
  /\ discoverIn \in DiscoverInputs
  /\ verify \in DeclaredVerify
  /\ loopHadWrites \in BOOLEAN
  /\ config \in {DefaultConfig, [DefaultConfig EXCEPT !.autoVerify = FALSE]}
  /\ verifyCommands = <<>>
  /\ family = "discover"
  /\ pc = "discover"
  /\ pathIn = NoPath
  /\ pathOut = NoResolve
  /\ toolOut = NoTool
  /\ modelCalls = 0
  /\ rollbackPrompts = 0
  /\ restoredFiles = <<>>
  /\ lastVerifyFailed = FALSE
  /\ repairRounds = 0
  /\ rawText = NoText
  /\ response = NoResponse
  /\ ScannerNew
  /\ MemoryIdle
  /\ AuditIdle
  /\ ShellIdle
  /\ LinksIdle
  /\ policy = DEFAULT_POLICY
  /\ disk = EmptyDisk
  /\ disk0 = EmptyDisk
  /\ changeTracker = NewChangeTracker
  /\ loop = 0
  /\ status = "none"
  /\ pending = <<>>
  /\ verifyIdx = 0
  /\ toolResults = <<>>
  /\ loopVerifyFailed = FALSE
  /\ hadVerifyFailures = FALSE
  /\ consecutiveVerifyFailures = 0
  /\ completed = FALSE
  /\ maxIterationReached = FALSE
  /\ abortedByError = FALSE
  /\ stoppedEarly = FALSE
  /\ conversation = <<>>
  /\ changedByWrite = {}
  /\ auditOut = <<>>
  /\ auditFailed = {}
  /\ uiOut = <<>>
  /\ spawnOut = {}
  /\ fsOut = {}

\* runTask, lines 190-206, on the inputs of the unit
Discover ==
  /\ pc = "discover"
  /\ verifyCommands' =
       verifyList(verify, config.autoVerify, loopHadWrites, discoverIn)
  /\ pc' = "discovered"
  /\ UNCHANGED << family, policy, config, disk, disk0, rawText, response,
                  scannerVars, otherUnitVars, modelCalls, historyVars,
                  changeTracker, loop, responseVars, pending, verifyIdx,
                  loopVerifyFailed, hadVerifyFailures,
                  consecutiveVerifyFailures, toolResults, loopHadWrites,
                  flagVars, conversation, changedByWrite, auditOut,
                  auditFailed, uiOut, spawnOut, fsOut, pathVars >>

NextDiscover == Discover

SpecDiscover == InitDiscover /\ [][NextDiscover]_vars

\* where a discovered command comes from: 1 the memory, 2 package.json,
\* 3 the Python files, 0 none of them
sourceOf(command, in) ==
  IF command \in Range(extractMemoryVerifyCommands(in.memory)) THEN 1
  ELSE IF command \in Range(detectNodeVerifyCommands(in.package)) THEN 2
  ELSE IF command \in Range(detectPythonVerifyCommands(in.python)) THEN 3
  ELSE 0

\* C33: discovered verify commands are in the verify list of an iteration
\* only when autoVerify is on and the iteration had a successful write_file;
\* they follow the model's own verify commands, memory commands first, then
\* package.json commands, then Python commands; and the list that is run
\* holds no command twice.
AutoVerifyList ==
  pc = "discovered" =>
    LET own == Len(verify)
        added == SubSeq(verifyCommands, own + 1, Len(verifyCommands))
    IN /\ Len(verifyCommands) >= own
       /\ SubSeq(verifyCommands, 1, own) = verify
       /\ added # <<>> => config.autoVerify /\ loopHadWrites
       /\ \A i \in DOMAIN added : sourceOf(added[i], discoverIn) # 0
       /\ \A i, j \in DOMAIN added :
            i < j => sourceOf(added[i], discoverIn) <= sourceOf(added[j], discoverIn)
       /\ \A i, j \in DOMAIN verifyCommands :
            i # j => verifyCommands[i] # verifyCommands[j]

\* C34: a failed Chat Client call aborts the loop.  The failing call sets
\* abortedByError and leaves the loop; from then on no Chat Client call, no
\* action, no verify command and no memory update happens, abortedByError
\* stays true, and the task goes through the post-loop steps to its
\* task_end event, which is logged with abortedByError = true.  The
\* model failed when the task is aborted with fewer answers in the
\* conversation than calls made.
ModelFailureAborts ==
  [][ LET answers == Cardinality({i \in DOMAIN conversation :
                                    conversation[i] = "assistant"})
          loopEvents == {"loop_start", "model_response", "memory_updates",
                         "action_result", "verify_result",
                         "write_proposed", "write_applied"}
      IN /\ (pc = "loop" /\ modelCalls' > modelCalls
               /\ "model_response" \notin Range(auditOut')) =>
              /\ abortedByError'
              /\ pc' = "postLoop"
              /\ spawnOut' = {}
              /\ toolResults' = toolResults
              /\ disk' = disk
         /\ (abortedByError /\ answers < modelCalls) =>
              /\ modelCalls' = modelCalls
              /\ spawnOut' = {}
              /\ toolResults' = toolResults
              /\ pending' = pending
              /\ Range(auditOut') \cap loopEvents = {}
              /\ abortedByError'
              /\ ~completed' /\ ~stoppedEarly' /\ ~maxIterationReached'
              /\ pc' \in {"rollback", "finished"}
              /\ pc' = "finished" => auditOut'[Len(auditOut')] = "task_end"
    ]_vars

\* C35: applyUpdates reports a change exactly when it made one.  It returns
\* a non-empty list of tags, sets updatedAt and goes on to write memory.json
\* exactly when a list or a kv entry of the stored memory is not what it
\* was; an update that leaves them all as they were, an append to a list of
\* 200 entries included, returns an empty list, keeps updatedAt and writes
\* nothing.
MemoryChangeReported ==
  [][ \A c \in DOMAIN memCalls :
        ( /\ memCalls[c].op = "applyUpdates"
          /\ memCalls[c].pc = "loaded"
          /\ memCalls'[c].pc # "loaded" ) =>
          LET s == memCalls[c].store
              before == stores[s].memory
              after == stores'[s].memory
              differs ==
                \/ after.projectRules # before.projectRules
                \/ after.architectureNotes # before.architectureNotes
                \/ after.commonCommands # before.commonCommands
                \/ kvHeap'[after.kv] # kvHeap[before.kv]
          IN  IF differs
                THEN /\ memCalls'[c].changed # <<>>
                     /\ after.updatedAt = isoTime(Len(memCalls))
                     /\ memCalls'[c].pc = "mkdir"
                ELSE /\ memCalls'[c].changed = <<>>
                     /\ after.updatedAt = before.updatedAt
                     /\ memCalls'[c].pc = "returned"
    ]_vars

\* C36: exactly one terminal state.  When task_end is logged exactly one of
\* completed, maxIterationReached, abortedByError and stoppedEarly is true,
\* and maxIterationReached is true only when the loop went through
\* maxIterations iterations, each with its Chat Client call, and none of
\* them completed, aborted or stopped the task.
OneTerminalState ==
  "task_end" \in Range(auditOut) =>
    /\ Cardinality({flag \in {"completed", "maxIterationReached",
                              "abortedByError", "stoppedEarly"} :
                      [ completed |-> completed,
                        maxIterationReached |-> maxIterationReached,
                        abortedByError |-> abortedByError,
                        stoppedEarly |-> stoppedEarly ][flag]}) = 1
    /\ maxIterationReached =>
         /\ loop = config.maxIterations + 1
         /\ modelCalls = config.maxIterations

\* a task that used up its iterations, two at least, and logged task_end
OneTerminalStateWitness ==
  /\ "task_end" \in Range(auditOut)
  /\ maxIterationReached
  /\ modelCalls >= 2
  /\ pc = "finished"

NoLostMemoryUpdate ==
  \A c \in DOMAIN memCalls :
    LET s == memCalls[c].store
        read == readFromDisk(memoryFiles[s], kvHeap, isoTime(0))
    IN  ( /\ memCalls[c].op = "set"
          /\ memCalls[c].pc = "returned"
          /\ \A d \in DOMAIN memCalls \ {c} :
               memCalls[d].store = s =>
                 memCalls[d].op \in {"get", "getSnapshot"} ) =>
          /\ kvGet(kvHeap[stores[s].memory.kv], memCalls[c].key)
               = JStr(memCalls[c].value)
          /\ kvGet(read.heap[read.memory.kv], memCalls[c].key)
               = JStr(memCalls[c].value)

(***************************************************************************)
(* security/policy.ts: loadPolicy, and runTask on a workspace whose        *)
(* policy.json changes while the task runs.                                *)
(***************************************************************************)
PolicyKeys ==
  [
    allowRunCommand |->
      <<"a", "l", "l", "o", "w", "R", "u", "n", "C", "o", "m", "m", "a",
        "n", "d">>,
    allowWrite |->
      <<"a", "l", "l", "o", "w", "W", "r", "i", "t", "e">>,
    allowedCommandPrefixes |->
      <<"a", "l", "l", "o", "w", "e", "d", "C", "o", "m", "m", "a", "n",
        "d", "P", "r", "e", "f", "i", "x", "e", "s">>,
    blockedCommandPatterns |->
      <<"b", "l", "o", "c", "k", "e", "d", "C", "o", "m", "m", "a", "n",
        "d", "P", "a", "t", "t", "e", "r", "n", "s">>,
    blockedWriteGlobs |->
      <<"b", "l", "o", "c", "k", "e", "d", "W", "r", "i", "t", "e", "G",
        "l", "o", "b", "s">>,
    allowPotentialSecrets |->
      <<"a", "l", "l", "o", "w", "P", "o", "t", "e", "n", "t", "i", "a",
        "l", "S", "e", "c", "r", "e", "t", "s">>
  ]

\* JSON.stringify of a string
RECURSIVE jsonQuoted(_)
jsonQuoted(s) ==
  IF s = <<>> THEN <<>>
  ELSE (IF Head(s) \in {"\"", "\\"} THEN <<"\\", Head(s)>> ELSE <<Head(s)>>)
         \o jsonQuoted(Tail(s))

\* texts joined by a comma and a line break
RECURSIVE lineJoin(_)
lineJoin(texts) ==
  IF texts = <<>> THEN <<>>
  ELSE IF Len(texts) = 1 THEN texts[1]
  ELSE texts[1] \o <<",", "\n">> \o lineJoin(Tail(texts))

\* JSON.stringify(list, null, 2) of a list of strings, one level deep
prettyList(list) ==
  IF list = <<>> THEN <<"[", "]">>
  ELSE <<"[", "\n">>
         \o lineJoin([i \in DOMAIN list |->
                        <<" ", " ", " ", " ">> \o quote(jsonQuoted(list[i]))]
                      \o <<>>)
         \o <<"\n", " ", " ", "]">>

\* policy.ts, line 80: JSON.stringify(policy, null, 2)
policyJson(pol) ==
  LET flag(b) == IF b THEN Str.true ELSE Str.false
      line(key, text) == <<" ", " ">> \o quote(key) \o <<":", " ">> \o text
  IN  <<"{", "\n">>
        \o lineJoin(<<
             line(PolicyKeys.allowRunCommand, flag(pol.allowRunCommand)),
             line(PolicyKeys.allowWrite, flag(pol.allowWrite)),
             line(PolicyKeys.allowedCommandPrefixes,
                  prettyList(pol.allowedCommandPrefixes)),
             line(PolicyKeys.blockedCommandPatterns,
                  prettyList(pol.blockedCommandPatterns)),
             line(PolicyKeys.blockedWriteGlobs,
                  prettyList(pol.blockedWriteGlobs)),
             line(PolicyKeys.allowPotentialSecrets,
                  flag(pol.allowPotentialSecrets)) >>)
        \o <<"\n", "}">>

\* policy.ts, lines 67-75: a list field of the parsed file
policyList(parsed, key, default) ==
  IF isArray(get(parsed, key))
    THEN LET strings == stringsOf(get(parsed, key).items)
         IN  [ threw |-> strings.threw,
               list |-> SelectSeq(strings.list, LAMBDA x : x # <<>>) ]
    ELSE [threw |-> FALSE, list |-> default]

\* policy.ts, lines 65-66: a flag of {...DEFAULT_POLICY, ...parsed}, as the
\* gates test it
policyFlag(parsed, key, default) ==
  IF get(parsed, key) = Undefined THEN default ELSE truthy(get(parsed, key))

\* policy.ts, lines 59-83: the policy, and the disk it leaves
loadPolicy(d, stateDir) ==
  LET policyPath == pathResolve(stateDir, PolicyFileName)
      read == IF policyPath \in DOMAIN d THEN jsonParse(d[policyPath])
              ELSE [ok |-> FALSE, value |-> Undefined]
      parsed == read.value
      prefixes == policyList(parsed, PolicyKeys.allowedCommandPrefixes,
                             DEFAULT_POLICY.allowedCommandPrefixes)
      patterns == policyList(parsed, PolicyKeys.blockedCommandPatterns,
                             DEFAULT_POLICY.blockedCommandPatterns)
      globs == policyList(parsed, PolicyKeys.blockedWriteGlobs,
                          DEFAULT_POLICY.blockedWriteGlobs)
      caught ==
        \/ ~read.ok
        \/ parsed.t = "null"
        \/ prefixes.threw
        \/ patterns.threw
        \/ globs.threw
  IN  IF caught
        THEN [ policy |-> DEFAULT_POLICY,
               disk |-> (policyPath :> policyJson(DEFAULT_POLICY)) @@ d ]
        ELSE [ policy |->
                 [ allowRunCommand |->
                     policyFlag(parsed, PolicyKeys.allowRunCommand,
                                DEFAULT_POLICY.allowRunCommand),
                   allowWrite |->
                     policyFlag(parsed, PolicyKeys.allowWrite,
                                DEFAULT_POLICY.allowWrite),
                   allowedCommandPrefixes |-> prefixes.list,
                   blockedCommandPatterns |-> patterns.list,
                   blockedWriteGlobs |-> globs.list,
                   allowPotentialSecrets |->
                     policyFlag(parsed, PolicyKeys.allowPotentialSecrets,
                                DEFAULT_POLICY.allowPotentialSecrets) ],
               disk |-> d ]

\* policy.json of the workspace
PolicyFile == pathResolve(StateDir, PolicyFileName)

\* runTask, lines 69-88, in a workspace that holds a policy.json or none
InitPolicyFile ==
  /\ family = "policyfile"
  /\ \E d \in {EmptyDisk} \cup
              {PolicyFile :> text :
                 text \in {PolicyTextDefault, PolicyTextClosed, PolicyTextNoRun}} :
       /\ disk = loadPolicy(d, StateDir).disk
       /\ policy = loadPolicy(d, StateDir).policy
  /\ disk0 = disk
  /\ config \in FamilyConfigs(family)
  /\ changeTracker = NewChangeTracker
  /\ pc = "start"
  /\ loop = 0
  /\ status = "none"
  /\ pending = <<>>
  /\ verify = <<>>
  /\ verifyCommands = <<>>
  /\ verifyIdx = 0
  /\ toolResults = <<>>
  /\ loopHadWrites = FALSE
  /\ loopVerifyFailed = FALSE
  /\ hadVerifyFailures = FALSE
  /\ consecutiveVerifyFailures = 0
  /\ completed = FALSE
  /\ maxIterationReached = FALSE
  /\ abortedByError = FALSE
  /\ stoppedEarly = FALSE
  /\ conversation = <<>>
  /\ changedByWrite = {}
  /\ auditOut = <<>>
  /\ auditFailed = {}
  /\ uiOut = <<>>
  /\ spawnOut = {}
  /\ fsOut = {}
  /\ pathIn = NoPath
  /\ pathOut = NoResolve
  /\ toolOut = NoTool
  /\ modelCalls = 0
  /\ rollbackPrompts = 0
  /\ restoredFiles = <<>>
  /\ lastVerifyFailed = FALSE
  /\ repairRounds = 0
  /\ rawText = NoText
  /\ response = NoResponse
  /\ ScannerNew
  /\ OtherUnitsNew

\* a command of the task or another process writes policy.json while the
\* task is in its loop; the file as it was at task start is changed once
PolicyFileChanges ==
  /\ family = "policyfile"
  /\ pc \in {"actions", "verify"}
  /\ disk[PolicyFile] = disk0[PolicyFile]
  /\ \E text \in PolicyTexts :
       /\ disk[PolicyFile] # text
       /\ disk' = (PolicyFile :> text) @@ disk
  /\ auditOut' = <<>>
  /\ uiOut' = <<>>
  /\ spawnOut' = {}
  /\ fsOut' = {}
  /\ UNCHANGED <<taskVars, modelCalls, historyVars, changeTracker, pc, loop,
                 responseVars, pending, verifyVars, toolResults,
                 loopHadWrites, flagVars, conversation, changedByWrite,
                 pathVars>>
  /\ AuditWrites

NextPolicyFile ==
  \/ NoApiKey
  \/ TaskStart
  \/ ModelCallFails
  \/ ModelResponds
  \/ LoopExhausted
  \/ ExecuteWriteFile
  \/ ExecuteRunCommand
  \/ ExecuteReadOnly
  \/ CollectVerify
  \/ RunVerify
  \/ RepairPrompt
  \/ RepairSkip
  \/ ResolveNeedUser
  \/ ResolveDone
  \/ ResolveContinue
  \/ PostLoop
  \/ RollbackPrompt
  \/ TaskEnd
  \/ PolicyFileChanges

SpecPolicyFile == InitPolicyFile /\ [][NextPolicyFile]_vars

\* C39: the policy is fixed for the task.  Every command check (of a
\* run_command action and of a verify command), every write-path check and
\* every secret-policy decision of a task is the one the policy loaded at
\* task start gives, whatever policy.json holds when the decision is made.
PolicyFixed ==
  [][ LET atStart == loadPolicy(disk0, StateDir).policy
          last == toolResults'[Len(toolResults')]
          command(cmd) ==
            LET check == isCommandAllowed(atStart, cmd)
            IN  IF check.allowed
                  THEN /\ spawnOut' = {cmd}
                       /\ last.summary # "Blocked by policy:"
                  ELSE /\ spawnOut' = {}
                       /\ ~last.ok
                       /\ last.summary = "Blocked by policy:"
                       /\ last.reason = check.reason
      IN  /\ policy' = policy
          /\ (pc = "actions" /\ pending # <<>> /\ pending' = Tail(pending)
                /\ Head(pending).tool = "run_command") =>
               command(Head(pending).command)
          /\ (pc = "verify" /\ verifyIdx' = verifyIdx + 1) =>
               command(verifyCommands[verifyIdx + 1])
          /\ (pc = "actions" /\ pending # <<>> /\ pending' = Tail(pending)
                /\ Head(pending).tool = "write_file") =>
               LET check == isWritePathAllowed(atStart, Head(pending).path)
                   secrets ==
                     secretsBlock(atStart, detectSecrets(Head(pending).content))
               IN  CASE ~check.allowed ->
                          /\ last.summary = "Blocked by policy:"
                          /\ last.reason = check.reason
                          /\ disk' = disk
                     [] check.allowed /\ secrets ->
                          /\ last.summary = "Potential secrets detected."
                          /\ disk' = disk
                     [] OTHER ->
                          last.summary \notin {"Blocked by policy:",
                                               "Potential secrets detected."}
    ]_vars

\* the task wrote a policy.json that blocks no command, and its next
\* command was blocked by the policy loaded at task start
PolicyFixedWitness ==
  /\ family = "policyfile"
  /\ toolResults # <<>>
  /\ toolResults[Len(toolResults)].tool = "run_command"
  /\ toolResults[Len(toolResults)].summary = "Blocked by policy:"
  /\ auditOut = <<"action_result">>
  /\ PolicyFile \in changedByWrite
  /\ isCommandAllowed(loadPolicy(disk, StateDir).policy, CmdRm).allowed

\* a verify command of this iteration was denied by the command policy
verifyDenied(results) ==
  \E i \in DOMAIN results :
    /\ results[i].tool = "verify"
    /\ results[i].summary = "Blocked by policy:"

\* runTask, lines 209-250, for an iteration with a denied verify command:
\* the command is not run and fails, the iteration is failed, the counter
\* is one higher at the end of the verify phase (and 0 again once the user
\* answers yes to the repair limit prompt)
deniedVerifyFails ==
  /\ ( /\ pc = "verify"
       /\ verifyIdx' = verifyIdx + 1
       /\ ~isCommandAllowed(policy, verifyCommands[verifyIdx + 1]).allowed )
     => /\ toolResults'[Len(toolResults')] =
             Result("verify", FALSE, "Blocked by policy:",
                    isCommandAllowed(policy, verifyCommands[verifyIdx + 1]).reason)
        /\ spawnOut' = {}
        /\ loopVerifyFailed'
        /\ hadVerifyFailures'
  /\ (verifyDenied(toolResults) /\ pc \in {"verify", "resolve"})
     => (loopVerifyFailed /\ hadVerifyFailures)
  /\ (verifyDenied(toolResults) /\ pc = "verify" /\ pc' # "verify")
     => consecutiveVerifyFailures' =
          IF uiOut' = <<Confirm("repair", NoText, "yes")>>
            THEN 0 ELSE consecutiveVerifyFailures + 1
  /\ (verifyDenied(toolResults) /\ pc = "resolve" /\ status = "done")
     => /\ ~completed'
        /\ conversation'[Len(conversation')] = VerifyFailedMessage
        /\ pc' = "loop"
        /\ loop' = loop + 1

\* C40 (a policy-blocked verify command counts as a verification failure):
\* when a verify command is denied by the command policy it is not run, the
\* iteration is marked as failed, hadVerifyFailures becomes true,
\* consecutiveVerifyFailures is incremented, and an iteration whose status
\* is done goes on to the test that overrides done to continue.
BlockedVerifyFails ==
  [][ /\ deniedVerifyFails
      /\ ( /\ verifyDenied(toolResults)
           /\ status = "done"
           /\ pc = "verify"
           /\ pc' # "verify" )
         => pc' = "resolve"
    ]_vars

\* C40, amended: as above, except that an iteration in which the repair
\* limit prompt was shown and not answered yes ends the loop at once, before
\* done is looked at; the task is not completed then either.
BlockedVerifyFailsUnlessStopped ==
  [][ /\ deniedVerifyFails
      /\ ( /\ verifyDenied(toolResults)
           /\ status = "done"
           /\ pc = "verify"
           /\ pc' # "verify" )
         => \/ pc' = "resolve"
            \/ /\ uiOut' \in {<<Confirm("repair", NoText, a)>> :
                                a \in {"no", "unavailable"}}
               /\ pc' \in {"postLoop", "crashed"}
               /\ conversation' = conversation
               /\ ~completed'
    ]_vars

\* under a policy that allows no command, the agent said done, its verify
\* command was denied, and done was overridden
BlockedVerifyWitness ==
  /\ family = "policyfile"
  /\ ~policy.allowRunCommand
  /\ pc = "loop"
  /\ loop = 2
  /\ ~completed
  /\ hadVerifyFailures
  /\ consecutiveVerifyFailures = 1
  /\ spawnOut = {}
  /\ conversation # <<>>
  /\ conversation[Len(conversation)] = VerifyFailedMessage

====
